---- MODULE Spec2Model ----
(***************************************************************************)
(* A state-machine model of the adaptive notch-filter frequency estimator  *)
(* (python/src/frequency_estimation): Config, SignalGenerator,             *)
(* NotchFilter, CascadedFilterBank and FrequencyEstimator, together with   *)
(* the functional LMS pipeline of core/.                                   *)
(*                                                                         *)
(* Numbers.  The program computes in IEEE doubles.  Here a real value v is *)
(* the integer v * SC (three decimals), a product of two such values is    *)
(* rescaled by SC with truncation toward zero (Mul), and numpy's cos and   *)
(* sin are range-reduced Taylor polynomials in the same fixed point.       *)
(* Mean-squared errors are sums of raw squares and so carry the scale      *)
(* SC * SC; the two capture tolerances are scaled accordingly.  Arrays     *)
(* keep the program's 0-based indices: an array of length n is a function  *)
(* on 0..n-1, a matrix a function of its row index.                        *)
(*                                                                         *)
(* The doubles that are not finite (inf, -inf, nan) are one value,         *)
(* NonFinite.  It enters through a step size that is not finite and        *)
(* spreads as IEEE arithmetic spreads it: an arithmetic expression with an *)
(* operand that is not finite has a value that is not finite.              *)
(***************************************************************************)
EXTENDS Integers, Sequences, FiniteSets, TLC

(***************************************************************************)
(* Bounds of the model.                                                    *)
(***************************************************************************)
MaxSamples == 3
MaxSubfilters == 3
MaxThetaPoints == 3

(***************************************************************************)
(* Fixed-point arithmetic.                                                 *)
(***************************************************************************)
SC == 10 * 100

PI == (355 * SC) \div 113

HalfPI == PI \div 2

TwoPI == 2 * PI

\* inf, -inf and nan
NonFinite == SC * SC * SC

\* np.isfinite
IsFinite(v) == v # NonFinite

\* a * b of two scaled values, truncated toward zero
Mul(a, b) == LET p == a * b IN IF p >= 0 THEN p \div SC ELSE -((-p) \div SC)

\* a / n for a scaled value a and a plain positive integer n
Quot(a, n) == IF a >= 0 THEN a \div n ELSE -((-a) \div n)

Reduce(x) == LET r == x % TwoPI IN IF r > PI THEN r - TwoPI ELSE r

CosTaylor(x) ==
  LET p2 == Mul(x, x)
      p4 == Mul(p2, p2)
      p6 == Mul(p4, p2)
      p8 == Mul(p4, p4)
  IN SC - Quot(p2, 2) + Quot(p4, 24) - Quot(p6, 720) + Quot(p8, 40320)

SinTaylor(x) ==
  LET p2 == Mul(x, x)
      p3 == Mul(p2, x)
      p5 == Mul(p3, p2)
      p7 == Mul(p5, p2)
      p9 == Mul(p7, p2)
  IN x - Quot(p3, 6) + Quot(p5, 120) - Quot(p7, 5040) + Quot(p9, 362880)

\* np.cos
Cos(x) ==
  LET r == Reduce(x)
      a == IF r < 0 THEN -r ELSE r
  IN IF a <= HalfPI THEN CosTaylor(a) ELSE -CosTaylor(PI - a)

\* np.sin
Sin(x) ==
  LET r == Reduce(x)
  IN IF r > HalfPI THEN SinTaylor(PI - r)
     ELSE IF r < -HalfPI THEN -SinTaylor(PI + r)
     ELSE SinTaylor(r)

\* np.zeros(n)
Zeros(n) == [i \in 0 .. n - 1 |-> 0]

RECURSIVE SumTo(_, _)
\* np.sum of the first n entries of f
SumTo(f, n) == IF n = 0 THEN 0 ELSE SumTo(f, n - 1) + f[n - 1]

\* np.min over an array of length n >= 1
ArrayMin(f, n) == CHOOSE v \in {f[i] : i \in 0 .. n - 1} : \A i \in 0 .. n - 1 : v <= f[i]

(***************************************************************************)
(* Complex doubles: a pair of scaled values.                               *)
(***************************************************************************)
Cx(re, im) == [re |-> re, im |-> im]

\* u * v
CMul(u, v) ==
  Cx(Mul(u.re, v.re) - Mul(u.im, v.im), Mul(u.re, v.im) + Mul(u.im, v.re))

\* u / v
CDiv(u, v) ==
  LET d == Mul(v.re, v.re) + Mul(v.im, v.im)
  IN Cx(Quot(u.re * v.re + u.im * v.im, d), Quot(u.im * v.re - u.re * v.im, d))

RECURSIVE IsqrtBetween(_, _, _)
\* The largest s in lo .. hi with s * s <= v
IsqrtBetween(v, lo, hi) ==
  IF lo = hi THEN lo
  ELSE LET mid == (lo + hi + 1) \div 2
       IN IF mid * mid <= v THEN IsqrtBetween(v, mid, hi)
          ELSE IsqrtBetween(v, lo, mid - 1)

\* np.abs of a complex value
CAbs(u) == IsqrtBetween(u.re * u.re + u.im * u.im, 0, 40 * SC)

\* u / mag for a real mag
CDivReal(u, mag) == Cx(Quot(u.re * SC, mag), Quot(u.im * SC, mag))

\* u * factor for a real factor
CMulReal(u, factor) == Cx(Mul(u.re, factor), Mul(u.im, factor))

\* np.linspace(start, stop, num) for num >= 2
linspace_between(start, stop, num) ==
  [ k \in 0 .. num - 1 |->
      IF k = num - 1 THEN stop ELSE start + k * ((stop - start) \div (num - 1)) ]

\* scipy.signal.freqz(b, a, worN=omega, fs=2*np.pi) at the frequency w:
\* B(z) / A(z) at z = exp(j w)
freqz_at(b, a, w) ==
  LET z1 == Cx(Cos(w), -Sin(w))
      z2 == Cx(Cos(2 * w), -Sin(2 * w))
      num == Cx(b[1] + Mul(b[2], z1.re) + Mul(b[3], z2.re),
                Mul(b[2], z1.im) + Mul(b[3], z2.im))
      den == Cx(a[1] + Mul(a[2], z1.re) + Mul(a[3], z2.re),
                Mul(a[2], z1.im) + Mul(a[3], z2.im))
  IN CDiv(num, den)

\* The H of freqz over the grid omega
freqz(b, a, omega) == [k \in DOMAIN omega |-> freqz_at(b, a, omega[k])]

(***************************************************************************)
(* Config (config.py).  Frequencies are in Hz; pole_radius and step_size   *)
(* are scaled by SC.                                                       *)
(***************************************************************************)
DefaultConfig ==
  [ fundamental_freq |-> 1000, sampling_freq |-> 8000, num_samples |-> 2,
    add_noise |-> FALSE, snr_db |-> 18,
    num_subfilters |-> 2, pole_radius |-> (95 * SC) \div 100,
    step_size |-> SC \div 10, num_theta_points |-> 3 ]

\* Configs that satisfy every validity invariant of the data model
ValidConfigs ==
  { [ DefaultConfig EXCEPT !.fundamental_freq = f, !.num_samples = n,
                           !.add_noise = an, !.num_subfilters = m,
                           !.num_theta_points = p ] :
      f \in {1000, 2000}, n \in 1 .. MaxSamples, an \in BOOLEAN,
      m \in 1 .. MaxSubfilters, p \in 1 .. MaxThetaPoints }

\* Configs whose step size is positive and not finite (float('inf'), or a
\* double so large that 2 * step_size is inf)
NonFiniteStepConfigs ==
  { [ DefaultConfig EXCEPT !.step_size = NonFinite, !.num_subfilters = m ] :
      m \in 1 .. 2 }

\* Configs that break exactly one validity invariant
InvalidConfigs ==
  { [DefaultConfig EXCEPT !.fundamental_freq = 0],
    [DefaultConfig EXCEPT !.sampling_freq = 0],
    [DefaultConfig EXCEPT !.fundamental_freq = 4000],
    [DefaultConfig EXCEPT !.num_subfilters = 0],
    [DefaultConfig EXCEPT !.pole_radius = 0],
    [DefaultConfig EXCEPT !.pole_radius = SC],
    [DefaultConfig EXCEPT !.step_size = 0],
    [DefaultConfig EXCEPT !.step_size = -(SC \div 10)],
    [DefaultConfig EXCEPT !.num_theta_points = 0] }

(***************************************************************************)
(* SignalGenerator (signal/generator.py).                                  *)
(***************************************************************************)
\* SignalGenerator.__post_init__: TRUE when it raises ValueError
post_init_raises(fundamental_freq, sampling_freq) ==
  \/ fundamental_freq <= 0
  \/ sampling_freq <= 0
  \/ 2 * fundamental_freq >= sampling_freq

\* SignalGenerator.omega_0
omega_0(gen) == (2 * PI * gen.fundamental_freq) \div gen.sampling_freq

\* Faulty variant of harmonic_signal: the last sample is left out
harmonic_signal_short(gen, num_samples) ==
  [ i \in 0 .. num_samples - 2 |->
      LET n == i + 1
      IN Sin(omega_0(gen) * n) + Quot(Cos(2 * omega_0(gen) * n), 2)
         + (-Quot(Cos(3 * omega_0(gen) * n), 4)) ]

\* The noise-free samples of SignalGenerator.generate, n = 1 .. num_samples
harmonic_signal(gen, num_samples) ==
  [ i \in 0 .. num_samples - 1 |->
      LET n == i + 1
          fundamental == Sin(omega_0(gen) * n)
          second_harmonic == Quot(Cos(2 * omega_0(gen) * n), 2)
          third_harmonic == -Quot(Cos(3 * omega_0(gen) * n), 4)
      IN fundamental + second_harmonic + third_harmonic ]

\* The draws of noise_std * randn(num_samples) the model follows: any real
\* vector is a possible draw; these are four of them
NoiseDraws(num_samples) ==
  { [i \in 0 .. num_samples - 1 |-> IF i = 0 THEN SC ELSE 0],
    [i \in 0 .. num_samples - 1 |-> IF i % 2 = 0 THEN -(SC \div 2) ELSE SC \div 2],
    [i \in 0 .. num_samples - 1 |-> IF i % 2 = 0 THEN -(2 * SC) ELSE SC \div 2],
    [i \in 0 .. num_samples - 1 |-> 2 * SC] }

\* SignalGenerator._add_awgn with the drawn noise vector
add_awgn_method(signal, noise) == [i \in DOMAIN signal |-> signal[i] + noise[i]]

\* SignalGenerator.generate (use_cache = False): the returned signal
generate(gen, num_samples, noise) ==
  IF gen.add_noise THEN add_awgn_method(harmonic_signal(gen, num_samples), noise)
  ELSE harmonic_signal(gen, num_samples)

\* The noise vectors a call of generate may draw
NoiseChoices(gen, num_samples) ==
  IF gen.add_noise THEN NoiseDraws(num_samples) ELSE {Zeros(num_samples)}

(***************************************************************************)
(* NotchFilter (filters/notch_filter.py).                                  *)
(***************************************************************************)
ArrLen(f) == Cardinality(DOMAIN f)

\* Faulty variant of get_coefficients: the pole radius is left out of a[1]
get_coefficients_unscaled_a1(notch, theta) ==
  LET m == notch.harmonic_index
      r == notch.pole_radius
      cos_term == Cos(m * theta)
  IN [ b |-> <<SC, -(2 * cos_term), SC>>,
       a |-> <<SC, -(2 * cos_term), Mul(r, r)>> ]

\* NotchFilter.get_coefficients
get_coefficients(notch, theta) ==
  LET m == notch.harmonic_index
      r == notch.pole_radius
      cos_term == Cos(m * theta)
  IN [ b |-> <<SC, -(2 * cos_term), SC>>,
       a |-> <<SC, -Mul(2 * r, cos_term), Mul(r, r)>> ]

\* Faulty variant of lfilter_sample: the history before the first sample is
\* 1 instead of 0
lfilter_sample_unit_state(b, a, x, y, i) ==
  LET x1 == IF i >= 1 THEN x[i - 1] ELSE SC
      x2 == IF i >= 2 THEN x[i - 2] ELSE SC
      y1 == IF i >= 1 THEN y[i - 1] ELSE SC
      y2 == IF i >= 2 THEN y[i - 2] ELSE SC
  IN Mul(b[1], x[i]) + Mul(b[2], x1) + Mul(b[3], x2) - Mul(a[2], y1) - Mul(a[3], y2)

\* One output sample of scipy's lfilter for a biquad, from zero initial state:
\* y[i] = b0 x[i] + b1 x[i-1] + b2 x[i-2] - a1 y[i-1] - a2 y[i-2]
lfilter_sample(b, a, x, y, i) ==
  LET x1 == IF i >= 1 THEN x[i - 1] ELSE 0
      x2 == IF i >= 2 THEN x[i - 2] ELSE 0
      y1 == IF i >= 1 THEN y[i - 1] ELSE 0
      y2 == IF i >= 2 THEN y[i - 2] ELSE 0
  IN Mul(b[1], x[i]) + Mul(b[2], x1) + Mul(b[3], x2) - Mul(a[2], y1) - Mul(a[3], y2)

RECURSIVE lfilter_upto(_, _, _, _)
\* The first n output samples of lfilter(b, a, x)
lfilter_upto(b, a, x, n) ==
  IF n = 0 THEN Zeros(0)
  ELSE LET y == lfilter_upto(b, a, x, n - 1)
           yi == lfilter_sample(b, a, x, y, n - 1)
       IN [j \in 0 .. n - 1 |-> IF j = n - 1 THEN yi ELSE y[j]]

\* scipy.signal.lfilter(b, a, x)
lfilter(b, a, x) == lfilter_upto(b, a, x, ArrLen(x))

\* lfilter(b, a, x) when cos(m * theta), and with it b[1] and a[1], is nan:
\* y[0] = b[0] * x[0] from the zero state, and every later sample has a nan
\* term
lfilter_nan(x) == [i \in DOMAIN x |-> IF i = 0 THEN x[0] ELSE NonFinite]

\* NotchFilter.filter
notch_filter(notch, signal, theta) ==
  IF IsFinite(theta)
  THEN LET c == get_coefficients(notch, theta) IN lfilter(c.b, c.a, signal)
  ELSE lfilter_nan(signal)

(***************************************************************************)
(* CascadedFilterBank (filters/filter_bank.py).                            *)
(***************************************************************************)
\* An unassigned name or None
None == << >>

\* Faulty variant of new_filter_bank: the harmonic indices start at 0
new_filter_bank_from_zero(num_stages, pole_radius) ==
  [ num_stages |-> num_stages,
    pole_radius |-> pole_radius,
    filters |-> [i \in 0 .. num_stages - 1 |->
                   [harmonic_index |-> i, pole_radius |-> pole_radius]],
    last_outputs |-> None ]

\* CascadedFilterBank.__init__
new_filter_bank(num_stages, pole_radius) ==
  [ num_stages |-> num_stages,
    pole_radius |-> pole_radius,
    filters |-> [i \in 0 .. num_stages - 1 |->
                   [harmonic_index |-> i + 1, pole_radius |-> pole_radius]],
    last_outputs |-> None ]

RECURSIVE cascade_row(_, _, _, _)
\* Row m of the outputs matrix built by the loop of CascadedFilterBank.process
cascade_row(filters, signal, theta, m) ==
  IF m = 0 THEN signal
  ELSE notch_filter(filters[m - 1], cascade_row(filters, signal, theta, m - 1), theta)

\* Faulty variant of process: the matrix of the previous call is not cleared
\* and the new rows are added to it
process_accumulating(bank, signal, theta) ==
  LET fresh == [m \in 0 .. bank.num_stages |-> cascade_row(bank.filters, signal, theta, m)]
      last == bank.last_outputs
  IN IF last = None THEN fresh
     ELSE [m \in 0 .. bank.num_stages |->
             [i \in DOMAIN fresh[m] |-> fresh[m][i] + last[m][i]]]

\* CascadedFilterBank.process: the returned outputs matrix
process(bank, signal, theta) ==
  [m \in 0 .. bank.num_stages |-> cascade_row(bank.filters, signal, theta, m)]

\* CascadedFilterBank.last_outputs (property)
bank_last_outputs(bank) == bank.last_outputs

\* Faulty variant of bank_final_output: the first row of the stored matrix
bank_final_output_first_row(bank) ==
  IF bank.last_outputs # None THEN bank.last_outputs[0] ELSE None

\* CascadedFilterBank.final_output (property): self._last_outputs[-1, :]
bank_final_output(bank) ==
  IF bank.last_outputs # None
  THEN bank.last_outputs[ArrLen(bank.last_outputs) - 1]
  ELSE None

\* np.sum(row ** 2) / num_samples (scale SC * SC)
mean_square(row, num_samples) ==
  Quot(SumTo([i \in DOMAIN row |-> row[i] * row[i]], ArrLen(row)), num_samples)

\* Faulty variant of compute_mse: mse_first is taken over row 0, the input
compute_mse_first_from_input(outputs) ==
  LET num_samples == ArrLen(outputs[0])
      last == ArrLen(outputs) - 1
  IN [ mse_total |-> mean_square(outputs[last], num_samples),
       mse_first |-> mean_square(outputs[0], num_samples) ]

\* CascadedFilterBank.compute_mse on the outputs of its process call
compute_mse(outputs) ==
  LET num_samples == ArrLen(outputs[0])
      last == ArrLen(outputs) - 1
  IN [ mse_total |-> mean_square(outputs[last], num_samples),
       mse_first |-> mean_square(outputs[1], num_samples) ]

\* NotchFilter.frequency_response
notch_frequency_response(notch, theta, omega) ==
  LET c == get_coefficients(notch, theta) IN freqz(c.b, c.a, omega)

\* H / np.abs(H[ref_idx])
normalize_response(H, ref_idx) ==
  [j \in DOMAIN H |-> CDivReal(H[j], CAbs(H[ref_idx]))]

\* The elementwise product of two responses
multiply_responses(H_total, H) ==
  [j \in DOMAIN H_total |-> CMul(H_total[j], H[j])]

\* The H of one pass of the loop of CascadedFilterBank.frequency_response
bank_stage_response(notch, theta, omega, ref_idx, normalize) ==
  IF normalize
  THEN normalize_response(notch_frequency_response(notch, theta, omega), ref_idx)
  ELSE notch_frequency_response(notch, theta, omega)

RECURSIVE bank_total_upto(_, _, _, _, _, _)
\* H_total after the first i passes of that loop
bank_total_upto(filters, theta, omega, ref_idx, normalize, i) ==
  IF i = 0 THEN [j \in DOMAIN omega |-> Cx(SC, 0)]
  ELSE multiply_responses(
         bank_total_upto(filters, theta, omega, ref_idx, normalize, i - 1),
         bank_stage_response(filters[i - 1], theta, omega, ref_idx, normalize))

\* The H_stages of CascadedFilterBank.frequency_response: one row for each
\* filter and a last row that stays zero
bank_stage_rows(bank, theta, omega, ref_idx, normalize) ==
  [i \in 0 .. bank.num_stages |->
     IF i < bank.num_stages
     THEN bank_stage_response(bank.filters[i], theta, omega, ref_idx, normalize)
     ELSE [j \in DOMAIN omega |-> Cx(0, 0)]]

\* CascadedFilterBank.frequency_response
frequency_response(bank, theta, omega, normalize) ==
  [ H_total |->
      IF normalize
      THEN normalize_response(
             bank_total_upto(bank.filters, theta, omega, ArrLen(omega) \div 3,
                             normalize, bank.num_stages),
             ArrLen(omega) \div 3)
      ELSE bank_total_upto(bank.filters, theta, omega, ArrLen(omega) \div 3,
                           normalize, bank.num_stages),
    H_stages |-> bank_stage_rows(bank, theta, omega, ArrLen(omega) \div 3, normalize) ]

(***************************************************************************)
(* FrequencyEstimator._compute_gradient (estimator.py).                    *)
(***************************************************************************)
\* Faulty variant of gradient_sample: n = 0 is not set apart, and the
\* indices n - 1 of the general formula wrap around to the end of the arrays
gradient_sample_wrapping(prev, cur, y, stage, harmonic_idx, cos_term, sin_term, pole_radius, n) ==
  IF n = 0 THEN
      prev[0]
      - Mul(2 * cos_term, prev[ArrLen(prev) - 1])
      + Mul(2 * harmonic_idx * sin_term, y[stage - 1][ArrLen(y[stage - 1]) - 1])
      - Mul(Mul(2 * pole_radius * harmonic_idx, sin_term), y[stage][ArrLen(y[stage]) - 1])
  ELSE IF n = 1 THEN
      prev[1]
      - Mul(2 * cos_term, prev[0])
      + Mul(2 * harmonic_idx * sin_term, y[stage - 1][0])
      + Mul(Mul(2 * pole_radius, cos_term), cur[0])
      - Mul(Mul(2 * pole_radius * harmonic_idx, sin_term), y[stage][0])
  ELSE
      prev[n]
      - Mul(2 * cos_term, prev[n - 1])
      + Mul(2 * harmonic_idx * sin_term, y[stage - 1][n - 1])
      + prev[n - 2]
      + Mul(Mul(2 * pole_radius, cos_term), cur[n - 1])
      - Mul(Mul(pole_radius, pole_radius), cur[n - 2])
      - Mul(Mul(2 * pole_radius * harmonic_idx, sin_term), y[stage][n - 1])

\* The body of the sample loop: beta_matrix[stage, n] for one n, given the
\* previous row and the entries of this row already written
gradient_sample(prev, cur, y, stage, harmonic_idx, cos_term, sin_term, pole_radius, n) ==
  IF n = 0 THEN prev[0]
  ELSE IF n = 1 THEN
      prev[1]
      - Mul(2 * cos_term, prev[0])
      + Mul(2 * harmonic_idx * sin_term, y[stage - 1][0])
      + Mul(Mul(2 * pole_radius, cos_term), cur[0])
      - Mul(Mul(2 * pole_radius * harmonic_idx, sin_term), y[stage][0])
  ELSE
      prev[n]
      - Mul(2 * cos_term, prev[n - 1])
      + Mul(2 * harmonic_idx * sin_term, y[stage - 1][n - 1])
      + prev[n - 2]
      + Mul(Mul(2 * pole_radius, cos_term), cur[n - 1])
      - Mul(Mul(pole_radius, pole_radius), cur[n - 2])
      - Mul(Mul(2 * pole_radius * harmonic_idx, sin_term), y[stage][n - 1])

RECURSIVE gradient_row_upto(_, _, _, _, _, _, _, _)
\* beta_matrix[stage, 0 .. n-1] after the first n passes of the sample loop
gradient_row_upto(prev, y, stage, harmonic_idx, cos_term, sin_term, pole_radius, n) ==
  IF n = 0 THEN Zeros(0)
  ELSE LET cur == gradient_row_upto(prev, y, stage, harmonic_idx, cos_term,
                                    sin_term, pole_radius, n - 1)
           v == gradient_sample(prev, cur, y, stage, harmonic_idx, cos_term,
                                sin_term, pole_radius, n - 1)
       IN [j \in 0 .. n - 1 |-> IF j = n - 1 THEN v ELSE cur[j]]

\* A row of beta_matrix when cos_term and sin_term are nan: entry 0 is the
\* copy of the previous row's entry 0, every later entry has a nan term
gradient_row_nan(prev) == [n \in DOMAIN prev |-> IF n = 0 THEN prev[0] ELSE NonFinite]

\* The harmonic index the stage loop uses for beta_matrix row `stage`
stage_harmonic(stage) == stage

RECURSIVE beta_matrix_row_unit_base(_, _, _, _, _)
\* Faulty variant of beta_matrix_row: beta_matrix starts as np.ones, so row 0
\* is all 1
beta_matrix_row_unit_base(stage, theta, y, pole_radius, num_samples) ==
  IF stage = 0 THEN [n \in 0 .. num_samples - 1 |-> SC]
  ELSE LET harmonic_idx == stage_harmonic(stage)
           prev == beta_matrix_row_unit_base(stage - 1, theta, y, pole_radius,
                                             num_samples)
       IN IF IsFinite(theta)
          THEN gradient_row_upto(prev, y, stage, harmonic_idx,
                                 Cos(harmonic_idx * theta), Sin(harmonic_idx * theta),
                                 pole_radius, num_samples)
          ELSE gradient_row_nan(prev)

RECURSIVE beta_matrix_row(_, _, _, _, _)
\* beta_matrix[stage, :] when the stage loop has finished; row 0 stays zero
beta_matrix_row(stage, theta, y, pole_radius, num_samples) ==
  IF stage = 0 THEN Zeros(num_samples)
  ELSE LET harmonic_idx == stage_harmonic(stage)
           prev == beta_matrix_row(stage - 1, theta, y, pole_radius, num_samples)
       IN IF IsFinite(theta)
          THEN gradient_row_upto(prev, y, stage, harmonic_idx,
                                 Cos(harmonic_idx * theta), Sin(harmonic_idx * theta),
                                 pole_radius, num_samples)
          ELSE gradient_row_nan(prev)

\* Faulty variant of estimator_compute_gradient: the stage loop runs one stage
\* further and the row of stage num_subfilters is returned
estimator_compute_gradient_one_more(cfg, theta, y) ==
  beta_matrix_row(cfg.num_subfilters, theta, y, cfg.pole_radius, cfg.num_samples)

\* FrequencyEstimator._compute_gradient: beta_matrix[num_subfilters - 1, :]
estimator_compute_gradient(cfg, theta, y) ==
  beta_matrix_row(cfg.num_subfilters - 1, theta, y, cfg.pole_radius, cfg.num_samples)

(***************************************************************************)
(* FrequencyEstimator.find_initial_theta: the pure parts (estimator.py).   *)
(***************************************************************************)
\* np.linspace(0, stop, num): num points, both ends included
linspace(stop, num) ==
  [ k \in 0 .. num - 1 |->
      IF num = 1 THEN 0
      ELSE IF k = num - 1 THEN stop
      ELSE k * (stop \div (num - 1)) ]

\* Faulty variant of search_stop: the range is not divided by the cascade length
search_stop_undivided(num_subfilters) == PI

\* np.pi / num_subfilters, the upper end of the search range
search_stop(num_subfilters) == PI \div num_subfilters

\* tolerance_avg = 0.0001 at the scale of a mean square
tolerance_avg == (SC * SC) \div 10000

\* tolerance_min = 0.2 at the scale of a mean square
tolerance_min == (2 * SC * SC) \div 10

\* Faulty variant of in_capture: the first-stage predicate is left out
in_capture_total_only(mse_first_k, mse_k, avg, min_mse) ==
  /\ mse_k - avg < tolerance_avg
  /\ mse_k - min_mse < tolerance_min

\* Faulty variant of in_capture: the distance to the minimum must be below 0
in_capture_below_min(mse_first_k, mse_k, avg, min_mse) ==
  /\ mse_first_k - avg < tolerance_avg
  /\ mse_k - avg < tolerance_avg
  /\ mse_k - min_mse < 0

\* One entry of in_capture_range
in_capture(mse_first_k, mse_k, avg, min_mse) ==
  /\ mse_first_k - avg < tolerance_avg
  /\ mse_k - avg < tolerance_avg
  /\ mse_k - min_mse < tolerance_min

\* Faulty variant of argmin: the first index of the maximum
argmax(f, n) ==
  CHOOSE i \in 0 .. n - 1 :
    /\ \A j \in 0 .. n - 1 : f[i] >= f[j]
    /\ \A j \in 0 .. i - 1 : f[j] < f[i]

\* np.argmin: the first index of the minimum
argmin(f, n) ==
  CHOOSE i \in 0 .. n - 1 :
    /\ \A j \in 0 .. n - 1 : f[i] <= f[j]
    /\ \A j \in 0 .. i - 1 : f[j] > f[i]

\* Faulty variant of first_capture: capture_thetas[-1], the last TRUE of the mask
last_capture(theta_range, mask, n) ==
  theta_range[CHOOSE i \in 0 .. n - 1 : mask[i] /\ \A j \in i + 1 .. n - 1 : ~mask[j]]

\* capture_thetas[0]: the entry of theta_range at the first TRUE of the mask
first_capture(theta_range, mask, n) ==
  theta_range[CHOOSE i \in 0 .. n - 1 : mask[i] /\ \A j \in 0 .. i - 1 : ~mask[j]]

\* The if / else that ends find_initial_theta
choose_initial_theta(theta_range, mask, mse, n) ==
  IF \A i \in 0 .. n - 1 : ~mask[i]
  THEN theta_range[argmin(mse, n)]
  ELSE first_capture(theta_range, mask, n)

\* Faulty variant of loop_continues: the loop stops one pass early
loop_stops_early(iteration, num_samples) == iteration < num_samples - 1

\* for iteration in range(num_samples): TRUE while the loop has a pass to make
loop_continues(iteration, num_samples) == iteration < num_samples

\* Faulty variant of lms_update: the factor 2 of the step is left out
lms_update_half_step(theta, step_size, y_n, beta_n) ==
  IF \A v \in {theta, step_size, y_n, beta_n} : IsFinite(v)
  THEN theta - Mul(Mul(step_size, y_n), beta_n)
  ELSE NonFinite

\* theta_current - (2 * step_size * y_n * beta_n)
lms_update(theta, step_size, y_n, beta_n) ==
  IF \A v \in {theta, step_size, y_n, beta_n} : IsFinite(v)
  THEN theta - Mul(Mul(2 * step_size, y_n), beta_n)
  ELSE NonFinite

(***************************************************************************)
(* The functional pipeline: utils/signal.py, core/filter_output.py,        *)
(* core/gradient.py, core/lms.py.                                          *)
(***************************************************************************)
\* Faulty variant of generate_test_signal: the sample index starts at 0
generate_test_signal_from_zero(fundamental_freq, sampling_freq, num_samples) ==
  LET w0 == (2 * PI * fundamental_freq) \div sampling_freq
  IN [ i \in 0 .. num_samples - 1 |->
         Sin(w0 * i) + Quot(Cos(2 * w0 * i), 2) + (-Quot(Cos(3 * w0 * i), 4)) ]

\* utils.signal.generate_test_signal
generate_test_signal(fundamental_freq, sampling_freq, num_samples) ==
  LET w0 == (2 * PI * fundamental_freq) \div sampling_freq
  IN [ i \in 0 .. num_samples - 1 |->
         LET n == i + 1
         IN Sin(w0 * n) + Quot(Cos(2 * w0 * n), 2) + (-Quot(Cos(3 * w0 * n), 4)) ]

\* utils.signal.add_awgn with the drawn noise vector
add_awgn(sig, noise) == [i \in DOMAIN sig |-> sig[i] + noise[i]]

\* The input_signal of compute_filter_output
fn_input_signal(cfg, noise) ==
  LET clean == generate_test_signal(cfg.fundamental_freq, cfg.sampling_freq,
                                    cfg.num_samples + 1)
  IN IF cfg.add_noise THEN add_awgn(clean, noise) ELSE clean

RECURSIVE fn_output_row(_, _, _, _)
\* y[stage, :] of compute_filter_output
fn_output_row(input_signal, theta, pole_radius, stage) ==
  IF stage = 0 THEN input_signal
  ELSE LET harmonic_index == stage
           b == <<SC, -(2 * Cos(harmonic_index * theta)), SC>>
           a == <<SC, -Mul(2 * pole_radius, Cos(harmonic_index * theta)),
                  Mul(pole_radius, pole_radius)>>
           below == fn_output_row(input_signal, theta, pole_radius, stage - 1)
       IN IF IsFinite(theta) THEN lfilter(b, a, below) ELSE lfilter_nan(below)

\* core.filter_output.compute_filter_output, on the input signal it built
compute_filter_output(theta, cfg, input_signal) ==
  [stage \in 0 .. cfg.num_subfilters |->
     fn_output_row(input_signal, theta, cfg.pole_radius, stage)]

\* The body of the sample loop of core.gradient.compute_gradient
fn_gradient_sample(prev, cur, yy, stage, harmonic_idx, cos_term, sin_term, pole_radius, n) ==
  IF n = 0 THEN prev[0]
  ELSE IF n = 1 THEN
      prev[1]
      - Mul(2 * cos_term, prev[0])
      + Mul(2 * harmonic_idx * sin_term, yy[stage - 1][0])
      + Mul(Mul(2 * pole_radius, cos_term), cur[0])
      - Mul(Mul(2 * pole_radius * harmonic_idx, sin_term), yy[stage][0])
  ELSE
      prev[n]
      - Mul(2 * cos_term, prev[n - 1])
      + Mul(2 * harmonic_idx * sin_term, yy[stage - 1][n - 1])
      + prev[n - 2]
      + Mul(Mul(2 * pole_radius, cos_term), cur[n - 1])
      - Mul(Mul(pole_radius, pole_radius), cur[n - 2])
      - Mul(Mul(2 * pole_radius * harmonic_idx, sin_term), yy[stage][n - 1])

RECURSIVE fn_gradient_row_upto(_, _, _, _, _, _, _, _)
fn_gradient_row_upto(prev, yy, stage, harmonic_idx, cos_term, sin_term, pole_radius, n) ==
  IF n = 0 THEN Zeros(0)
  ELSE LET cur == fn_gradient_row_upto(prev, yy, stage, harmonic_idx, cos_term,
                                       sin_term, pole_radius, n - 1)
           v == fn_gradient_sample(prev, cur, yy, stage, harmonic_idx, cos_term,
                                   sin_term, pole_radius, n - 1)
       IN [j \in 0 .. n - 1 |-> IF j = n - 1 THEN v ELSE cur[j]]

RECURSIVE fn_beta_matrix_row(_, _, _, _, _)
fn_beta_matrix_row(stage, theta, yy, pole_radius, num_samples) ==
  IF stage = 0 THEN Zeros(num_samples)
  ELSE LET harmonic_idx == stage
           prev == fn_beta_matrix_row(stage - 1, theta, yy, pole_radius, num_samples)
       IN IF IsFinite(theta)
          THEN fn_gradient_row_upto(prev, yy, stage, harmonic_idx,
                                    Cos(harmonic_idx * theta),
                                    Sin(harmonic_idx * theta), pole_radius, num_samples)
          ELSE gradient_row_nan(prev)

\* core.gradient.compute_gradient: beta_matrix[num_subfilters - 1, :]
compute_gradient(theta, yy, cfg) ==
  fn_beta_matrix_row(cfg.num_subfilters - 1, theta, yy, cfg.pole_radius, cfg.num_samples)

\* core.mse.compute_mse(y, cfg)
fn_compute_mse(yy, cfg) ==
  LET num_samples == cfg.num_samples + 1
      total_stages == cfg.num_subfilters + 1
      final_output == yy[total_stages - 1]
      first_output == yy[1]
  IN [ mse_total |->
         Quot(SumTo([i \in DOMAIN final_output |-> final_output[i] * final_output[i]],
                    ArrLen(final_output)), num_samples),
       mse_first |->
         Quot(SumTo([i \in DOMAIN first_output |-> first_output[i] * first_output[i]],
                    ArrLen(first_output)), num_samples) ]

\* H * (1 / np.abs(H[num_points]))
scale_response(H, num_points) ==
  [j \in DOMAIN H |-> CMulReal(H[j], Quot(SC * SC, CAbs(H[num_points])))]

\* The freqz of one pass of the loop of compute_frequency_response
fn_notch_response(harmonic_idx, theta, pole_radius, omega) ==
  freqz(<<SC, -(2 * Cos(harmonic_idx * theta)), SC>>,
        <<SC, -Mul(2 * pole_radius, Cos(harmonic_idx * theta)),
          Mul(pole_radius, pole_radius)>>, omega)

\* The H of that pass
fn_stage_response(stage, theta, pole_radius, omega, num_points) ==
  scale_response(fn_notch_response(stage + 1, theta, pole_radius, omega), num_points)

RECURSIVE fn_total_upto(_, _, _, _, _)
\* H_total after the passes for stage = 0 .. n - 1 of that loop
fn_total_upto(theta, pole_radius, omega, num_points, n) ==
  IF n = 0 THEN [j \in DOMAIN omega |-> Cx(SC, 0)]
  ELSE multiply_responses(
         fn_total_upto(theta, pole_radius, omega, num_points, n - 1),
         fn_stage_response(n - 1, theta, pole_radius, omega, num_points))

\* The omega of compute_frequency_response
fn_omega(cfg) == linspace_between(-PI, PI, cfg.num_theta_points * 3)

\* core.frequency_response.compute_frequency_response
compute_frequency_response(theta, cfg) ==
  [ H_total |->
      scale_response(fn_total_upto(theta, cfg.pole_radius, fn_omega(cfg),
                                   cfg.num_theta_points, cfg.num_subfilters + 1),
                     cfg.num_theta_points),
    H_stages |->
      [stage \in 0 .. cfg.num_subfilters |->
         fn_stage_response(stage, theta, cfg.pole_radius, fn_omega(cfg),
                           cfg.num_theta_points)],
    freq_axis |->
      [j \in DOMAIN fn_omega(cfg) |-> Quot(fn_omega(cfg)[j] * cfg.sampling_freq, TwoPI)] ]

\* run_lms_algorithm: theta_current - (2 * step_size * y_n * beta_n)
fn_lms_update(theta, step_size, y_n, beta_n) ==
  IF \A v \in {theta, step_size, y_n, beta_n} : IsFinite(v)
  THEN theta - Mul(Mul(2 * step_size, y_n), beta_n)
  ELSE NonFinite

\* run_lms_algorithm: for iteration in range(num_samples)
fn_loop_continues(iteration, num_samples) == iteration < num_samples

(***************************************************************************)
(* State.                                                                  *)
(***************************************************************************)
VARIABLES
  config,            \* the Config handed to the estimator
  pc,                \* where the caller of the estimator stands
  error,             \* the exception that ended the run, or "None"
  filter_bank,       \* FrequencyEstimator.filter_bank
  signal_generator,  \* FrequencyEstimator.signal_generator
  signal,            \* the local `signal` of the running method
  theta_range,       \* find_initial_theta locals
  mse_values,
  mse_first_values,
  running_average,
  k,
  in_capture_range,
  initial_theta,
  warnings_emitted,  \* the messages passed to warnings.warn, in order
  search_result,     \* what find_initial_theta returned
  theta_current,     \* run_lms locals
  theta_history,
  iteration,
  y,
  beta,
  lms_result,        \* what run_lms returned
  result,            \* the EstimationResult estimate returned
  calls              \* the calls a client made on a component directly, with
                     \* what each returned, in order

vars ==
  << config, pc, error, filter_bank, signal_generator, signal, theta_range,
     mse_values, mse_first_values, running_average, k, in_capture_range,
     initial_theta, warnings_emitted, search_result, theta_current,
     theta_history, iteration, y, beta, lms_result, result, calls >>

search_vars ==
  << theta_range, mse_values, mse_first_values, running_average, k,
     in_capture_range, initial_theta, warnings_emitted, search_result >>

lms_vars == << theta_current, theta_history, iteration, y, beta, lms_result >>

Init ==
  /\ config \in ValidConfigs \cup NonFiniteStepConfigs \cup InvalidConfigs
  /\ pc = "new"
  /\ error = "None"
  /\ filter_bank = None
  /\ signal_generator = None
  /\ signal = None
  /\ theta_range = None
  /\ mse_values = None
  /\ mse_first_values = None
  /\ running_average = 0
  /\ k = 0
  /\ in_capture_range = None
  /\ initial_theta = 0
  /\ warnings_emitted = << >>
  /\ search_result = None
  /\ theta_current = 0
  /\ theta_history = None
  /\ iteration = 0
  /\ y = None
  /\ beta = None
  /\ lms_result = None
  /\ result = None
  /\ calls = << >>

(***************************************************************************)
(* FrequencyEstimator.__init__                                             *)
(***************************************************************************)
Construct ==
  /\ pc = "new"
  /\ filter_bank' = new_filter_bank(config.num_subfilters, config.pole_radius)
  /\ IF post_init_raises(config.fundamental_freq, config.sampling_freq)
     THEN /\ pc' = "error"
          /\ error' = "ValueError"
          /\ UNCHANGED signal_generator
     ELSE /\ pc' = "ready"
          /\ signal_generator' =
               [ fundamental_freq |-> config.fundamental_freq,
                 sampling_freq |-> config.sampling_freq,
                 add_noise |-> config.add_noise,
                 snr_db |-> config.snr_db,
                 cached_signal |-> None,
                 cached_num_samples |-> 0 ]
          /\ UNCHANGED error
  /\ UNCHANGED << calls, config, signal, search_vars, lms_vars, result >>

\* FrequencyEstimator.generate_signal(): the generator after the call that
\* returned sig
after_generate(gen, sig) ==
  [gen EXCEPT !.cached_signal = sig, !.cached_num_samples = ArrLen(sig)]

(***************************************************************************)
(* FrequencyEstimator.find_initial_theta, called by estimate               *)
(***************************************************************************)
\* Lines 174-186: the grid, the zeroed arrays and the signal
FindBegin ==
  /\ pc = "ready"
  /\ IF config.num_subfilters = 0
     THEN /\ pc' = "error"
          /\ error' = "ZeroDivisionError"
          /\ UNCHANGED << signal, signal_generator, search_vars >>
     ELSE /\ pc' = "search"
          /\ theta_range' = linspace(search_stop(config.num_subfilters), config.num_theta_points)
          /\ mse_values' = Zeros(config.num_theta_points)
          /\ mse_first_values' = Zeros(config.num_theta_points)
          /\ running_average' = 0
          /\ k' = 0
          /\ \E noise \in NoiseChoices(signal_generator, config.num_samples + 1) :
               /\ signal' = generate(signal_generator, config.num_samples + 1, noise)
               /\ signal_generator' = after_generate(signal_generator, signal')
          /\ UNCHANGED << error, in_capture_range, initial_theta,
                          warnings_emitted, search_result >>
  /\ UNCHANGED << calls, config, filter_bank, lms_vars, result >>

\* Lines 189-192: one pass of the grid loop
FindStep ==
  /\ pc = "search"
  /\ k < config.num_theta_points
  /\ LET theta == theta_range[k]
         outputs == process(filter_bank, signal, theta)
         mse == compute_mse(outputs)
     IN /\ filter_bank' = [filter_bank EXCEPT !.last_outputs = outputs]
        /\ mse_values' = [mse_values EXCEPT ![k] = mse.mse_total]
        /\ mse_first_values' = [mse_first_values EXCEPT ![k] = mse.mse_first]
        /\ running_average' = running_average + Quot(mse.mse_total, config.num_theta_points)
  /\ k' = k + 1
  /\ UNCHANGED << calls, config, pc, error, signal_generator, signal, theta_range,
                  in_capture_range, initial_theta, warnings_emitted,
                  search_result, lms_vars, result >>

\* Lines 194-217: the capture range, the choice and the return
FindSelect ==
  /\ pc = "search"
  /\ k = config.num_theta_points
  /\ IF config.num_theta_points = 0
     THEN /\ pc' = "error"
          /\ error' = "ValueError"
          /\ UNCHANGED << in_capture_range, initial_theta, warnings_emitted,
                          search_result >>
     ELSE LET n == config.num_theta_points
              min_mse == ArrayMin(mse_values, n)
              mask == [i \in 0 .. n - 1 |->
                         in_capture(mse_first_values[i], mse_values[i],
                                    running_average, min_mse)]
              chosen == choose_initial_theta(theta_range, mask, mse_values, n)
          IN /\ in_capture_range' = mask
             /\ initial_theta' = chosen
             /\ warnings_emitted' =
                  IF \A i \in 0 .. n - 1 : ~mask[i]
                  THEN Append(warnings_emitted,
                              "Capture range not found. Using minimum MSE point.")
                  ELSE warnings_emitted
             /\ search_result' =
                  [ initial_theta |-> chosen, mse_values |-> mse_values,
                    mse_first_values |-> mse_first_values,
                    theta_range |-> theta_range ]
             /\ pc' = "searched"
             /\ UNCHANGED error
  /\ UNCHANGED << calls, config, filter_bank, signal_generator, signal, theta_range,
                  mse_values, mse_first_values, running_average, k, lms_vars,
                  result >>

(***************************************************************************)
(* FrequencyEstimator.run_lms, called by estimate                          *)
(***************************************************************************)
\* Lines 234-239
LmsBegin ==
  /\ pc = "searched"
  /\ pc' = "lms"
  /\ theta_current' = search_result.initial_theta
  /\ theta_history' = Zeros(config.num_samples)
  /\ iteration' = 0
  /\ UNCHANGED << calls, config, error, filter_bank, signal_generator, signal,
                  search_vars, y, beta, lms_result, result >>

\* Lines 242-256: one pass of the LMS loop
LmsStep ==
  /\ pc = "lms"
  /\ loop_continues(iteration, config.num_samples)
  /\ \E noise \in NoiseChoices(signal_generator, config.num_samples + 1) :
       /\ signal' = generate(signal_generator, config.num_samples + 1, noise)
       /\ signal_generator' = after_generate(signal_generator, signal')
  /\ y' = process(filter_bank, signal', theta_current)
  /\ filter_bank' = [filter_bank EXCEPT !.last_outputs = y']
  /\ beta' = estimator_compute_gradient(config, theta_current, y')
  /\ LET beta_n == beta'[iteration]
         y_n == y'[config.num_subfilters][iteration]
     IN theta_current' = lms_update(theta_current, config.step_size, y_n, beta_n)
  /\ theta_history' = [theta_history EXCEPT ![iteration] = theta_current']
  /\ iteration' = iteration + 1
  /\ UNCHANGED << calls, config, pc, error, search_vars, lms_result, result >>

\* Line 258: the loop is over
LmsReturn ==
  /\ pc = "lms"
  /\ ~loop_continues(iteration, config.num_samples)
  /\ pc' = "tracked"
  /\ lms_result' = [theta_final |-> theta_current, theta_history |-> theta_history]
  /\ UNCHANGED << calls, config, error, filter_bank, signal_generator, signal,
                  search_vars, theta_current, theta_history, iteration, y,
                  beta, result >>

(***************************************************************************)
(* FrequencyEstimator.estimate, phase 3 and the result (lines 354-378)     *)
(***************************************************************************)
Finish ==
  /\ pc = "tracked"
  /\ pc' = "done"
  /\ \E noise \in NoiseChoices(signal_generator, config.num_samples + 1) :
       /\ signal' = generate(signal_generator, config.num_samples + 1, noise)
       /\ signal_generator' = after_generate(signal_generator, signal')
  /\ LET filter_output == process(filter_bank, signal', lms_result.theta_final)
     IN /\ filter_bank' = [filter_bank EXCEPT !.last_outputs = filter_output]
        /\ result' =
             [ initial_theta |-> search_result.initial_theta,
               final_theta |-> lms_result.theta_final,
               theta_history |-> lms_result.theta_history,
               mse_values |-> search_result.mse_values,
               mse_first_values |-> search_result.mse_first_values,
               theta_range |-> search_result.theta_range,
               filter_output |-> filter_output,
               config |-> config ]
  /\ UNCHANGED << calls, config, error, search_vars, lms_vars >>

(***************************************************************************)
(* core.lms.run_lms_algorithm(initial_theta, cfg), called on the Config by *)
(* the functional pipeline.  Its initial_theta is the result of the        *)
(* functional initial search, a point of the grid over [0, pi/M].          *)
(***************************************************************************)
\* Lines 41-48
FnLmsBegin ==
  /\ pc = "new"
  /\ config.num_subfilters >= 1
  /\ config.num_theta_points >= 1
  /\ pc' = "fn_lms"
  /\ \E g \in 0 .. config.num_theta_points - 1 :
       /\ initial_theta' =
            linspace(search_stop(config.num_subfilters), config.num_theta_points)[g]
       /\ theta_current' = initial_theta'
  /\ theta_history' = Zeros(config.num_samples)
  /\ iteration' = 0
  /\ UNCHANGED << calls, config, error, filter_bank, signal_generator, signal,
                  theta_range, mse_values, mse_first_values, running_average,
                  k, in_capture_range, warnings_emitted, search_result, y,
                  beta, lms_result, result >>

\* Lines 51-66: one pass of the loop
FnLmsStep ==
  /\ pc = "fn_lms"
  /\ fn_loop_continues(iteration, config.num_samples)
  /\ IF config.sampling_freq = 0
     THEN /\ pc' = "fn_error"
          /\ error' = "ZeroDivisionError"
          /\ UNCHANGED << signal, lms_vars >>
     ELSE /\ \E noise \in (IF config.add_noise THEN NoiseDraws(config.num_samples + 1)
                           ELSE {Zeros(config.num_samples + 1)}) :
               signal' = fn_input_signal(config, noise)
          /\ y' = compute_filter_output(theta_current, config, signal')
          /\ beta' = compute_gradient(theta_current, y', config)
          /\ LET beta_n == beta'[iteration]
                 y_n == y'[config.num_subfilters][iteration]
             IN theta_current' = fn_lms_update(theta_current, config.step_size, y_n, beta_n)
          /\ theta_history' = [theta_history EXCEPT ![iteration] = theta_current']
          /\ iteration' = iteration + 1
          /\ UNCHANGED << pc, error, lms_result >>
  /\ UNCHANGED << calls, config, filter_bank, signal_generator, search_vars, result >>

\* Line 68
FnLmsReturn ==
  /\ pc = "fn_lms"
  /\ ~fn_loop_continues(iteration, config.num_samples)
  /\ pc' = "fn_tracked"
  /\ lms_result' = [theta_final |-> theta_current, theta_history |-> theta_history]
  /\ UNCHANGED << calls, config, error, filter_bank, signal_generator, signal,
                  search_vars, theta_current, theta_history, iteration, y,
                  beta, result >>

Next ==
  \/ Construct
  \/ FindBegin
  \/ FindStep
  \/ FindSelect
  \/ LmsBegin
  \/ LmsStep
  \/ LmsReturn
  \/ Finish
  \/ FnLmsBegin
  \/ FnLmsStep
  \/ FnLmsReturn

Spec == Init /\ [][Next]_vars

(***************************************************************************)
(* A client that calls the components directly: CascadedFilterBank.process *)
(* and compute_mse on one bank, and core.mse.compute_mse on the output of  *)
(* compute_filter_output, with arguments of its choice.  `calls` keeps     *)
(* every call with its arguments, what it returned and the bank before and *)
(* after it.                                                               *)
(***************************************************************************)
\* The number of calls the client makes
MaxCalls == 3

\* The pole radii the client builds banks with
BankRadii == {SC \div 2, (95 * SC) \div 100}

\* The client's Configs: noise-free, any cascade length and pole radius
BankConfigs ==
  { [ DefaultConfig EXCEPT !.num_samples = MaxSamples, !.num_subfilters = m,
                           !.pole_radius = r ] :
      m \in 1 .. MaxSubfilters, r \in BankRadii }

\* The signals the client passes: all zero, an impulse, and a signal of
\* both signs
TestSignals ==
  { Zeros(MaxSamples + 1),
    [i \in 0 .. MaxSamples |-> IF i = 0 THEN SC ELSE 0],
    [i \in 0 .. MaxSamples |-> IF i % 2 = 0 THEN SC + 100 * i ELSE -(SC \div 2)] }

\* The thetas the client passes
TestThetas == {PI \div 4, (2 * PI) \div 3}

BankInit ==
  /\ config \in BankConfigs
  /\ pc = "bank"
  /\ error = "None"
  /\ filter_bank = new_filter_bank(config.num_subfilters, config.pole_radius)
  /\ signal_generator = None
  /\ signal = None
  /\ theta_range = None
  /\ mse_values = None
  /\ mse_first_values = None
  /\ running_average = 0
  /\ k = 0
  /\ in_capture_range = None
  /\ initial_theta = 0
  /\ warnings_emitted = << >>
  /\ search_result = None
  /\ theta_current = 0
  /\ theta_history = None
  /\ iteration = 0
  /\ y = None
  /\ beta = None
  /\ lms_result = None
  /\ result = None
  /\ calls = << >>

\* outputs = bank.process(sig, theta)
BankProcess ==
  /\ pc = "bank"
  /\ Len(calls) < MaxCalls
  /\ \E sig \in TestSignals, theta \in TestThetas :
       LET outputs == process(filter_bank, sig, theta)
       IN /\ filter_bank' = [filter_bank EXCEPT !.last_outputs = outputs]
          /\ calls' = Append(calls, [ op |-> "process", signal |-> sig,
                                      theta |-> theta, returned |-> outputs,
                                      bank_before |-> filter_bank,
                                      bank_after |-> filter_bank' ])
  /\ UNCHANGED << config, pc, error, signal_generator, signal, search_vars,
                  lms_vars, result >>

\* mse_total, mse_first = bank.compute_mse(sig, theta)
BankComputeMse ==
  /\ pc = "bank"
  /\ Len(calls) < MaxCalls
  /\ \E sig \in TestSignals, theta \in TestThetas :
       LET outputs == process(filter_bank, sig, theta)
       IN /\ filter_bank' = [filter_bank EXCEPT !.last_outputs = outputs]
          /\ calls' = Append(calls, [ op |-> "compute_mse", signal |-> sig,
                                      theta |-> theta,
                                      returned |-> compute_mse(outputs),
                                      bank_before |-> filter_bank,
                                      bank_after |-> filter_bank' ])
  /\ UNCHANGED << config, pc, error, signal_generator, signal, search_vars,
                  lms_vars, result >>

\* core.mse.compute_mse(compute_filter_output(theta, cfg), cfg)
FnComputeMse ==
  /\ pc = "bank"
  /\ Len(calls) < MaxCalls
  /\ \E theta \in TestThetas :
       LET input_signal == fn_input_signal(config, Zeros(config.num_samples + 1))
           yy == compute_filter_output(theta, config, input_signal)
       IN calls' = Append(calls, [ op |-> "fn_compute_mse", signal |-> input_signal,
                                   theta |-> theta,
                                   returned |-> fn_compute_mse(yy, config),
                                   bank_before |-> filter_bank,
                                   bank_after |-> filter_bank ])
  /\ UNCHANGED << config, pc, error, filter_bank, signal_generator, signal,
                  search_vars, lms_vars, result >>

BankNext ==
  \/ BankProcess
  \/ BankComputeMse
  \/ FnComputeMse

BankSpec == BankInit /\ [][BankNext]_vars

(***************************************************************************)
(* A client that asks for frequency responses: on a bank built from its    *)
(* Config, over the plotter's grid np.linspace(-pi, pi, 3 * num_points)    *)
(* (visualization/plotter.py, plot_frequency_response), and from           *)
(* core.frequency_response.compute_frequency_response on the same Config.  *)
(***************************************************************************)
\* The client's Configs: any cascade length and grid size
FreqConfigs ==
  { [ DefaultConfig EXCEPT !.num_subfilters = m, !.num_theta_points = p,
                           !.pole_radius = SC \div 2 ] :
      m \in 1 .. MaxSubfilters, p \in 1 .. MaxThetaPoints }

\* The omega of Plotter.plot_frequency_response
plot_omega(cfg) == linspace_between(-PI, PI, cfg.num_theta_points * 3)

\* The thetas the client passes
FreqThetas == {SC \div 2, SC}

FreqInit ==
  /\ config \in FreqConfigs
  /\ pc = "freq"
  /\ error = "None"
  /\ filter_bank = new_filter_bank(config.num_subfilters, config.pole_radius)
  /\ signal_generator = None
  /\ signal = None
  /\ theta_range = None
  /\ mse_values = None
  /\ mse_first_values = None
  /\ running_average = 0
  /\ k = 0
  /\ in_capture_range = None
  /\ initial_theta = 0
  /\ warnings_emitted = << >>
  /\ search_result = None
  /\ theta_current = 0
  /\ theta_history = None
  /\ iteration = 0
  /\ y = None
  /\ beta = None
  /\ lms_result = None
  /\ result = None
  /\ calls = << >>

\* H_total, H_stages = filter_bank.frequency_response(theta, omega)
BankFrequencyResponse ==
  /\ pc = "freq"
  /\ Len(calls) < MaxCalls
  /\ \E theta \in FreqThetas, normalize \in BOOLEAN :
       calls' = Append(calls, [ op |-> "frequency_response", theta |-> theta,
                                omega |-> plot_omega(config), normalize |-> normalize,
                                returned |-> frequency_response(filter_bank, theta,
                                                                plot_omega(config),
                                                                normalize) ])
  /\ UNCHANGED << config, pc, error, filter_bank, signal_generator, signal,
                  search_vars, lms_vars, result >>

\* H_total, H_stages, freq_axis = compute_frequency_response(theta, cfg)
FnFrequencyResponse ==
  /\ pc = "freq"
  /\ Len(calls) < MaxCalls
  /\ \E theta \in FreqThetas :
       calls' = Append(calls, [ op |-> "compute_frequency_response", theta |-> theta,
                                omega |-> fn_omega(config),
                                normalize |-> TRUE,
                                returned |-> compute_frequency_response(theta, config) ])
  /\ UNCHANGED << config, pc, error, filter_bank, signal_generator, signal,
                  search_vars, lms_vars, result >>

FreqNext ==
  \/ BankFrequencyResponse
  \/ FnFrequencyResponse

FreqSpec == FreqInit /\ [][FreqNext]_vars

(***************************************************************************)
(* FrequencyEstimator._compute_gradient step by step (estimator.py lines   *)
(* 279-311; core/gradient.py lines 47-85 is the same code): one step for   *)
(* each assignment to beta_matrix.  Here `beta` is the whole beta_matrix,  *)
(* `k` the loop variable stage, `iteration` the number of passes the       *)
(* sample loop has made in this stage, and `calls` the assignments made so *)
(* far, each with the entries of beta_matrix it read.                      *)
(***************************************************************************)
\* The arguments: noise-free Configs of any cascade length, sample count and
\* pole radius
GradientConfigs ==
  { [ DefaultConfig EXCEPT !.num_samples = n, !.num_subfilters = m,
                           !.pole_radius = r ] :
      n \in 1 .. MaxSamples, m \in 1 .. MaxSubfilters, r \in BankRadii }

\* Faulty variant of sample_order: the samples are visited from the last to
\* the first
sample_order_descending(num_samples) ==
  [i \in 0 .. num_samples - 1 |-> num_samples - 1 - i]

\* The values of n in the order `for n in range(num_samples)` visits them
sample_order(num_samples) == [i \in 0 .. num_samples - 1 |-> i]

\* The entries <<row, sample>> of beta_matrix the assignment to
\* beta_matrix[stage, n] reads
gradient_reads(stage, n) ==
  IF n = 0 THEN {<<stage - 1, 0>>}
  ELSE IF n = 1 THEN {<<stage - 1, 1>>, <<stage - 1, 0>>, <<stage, 0>>}
  ELSE {<<stage - 1, n>>, <<stage - 1, n - 1>>, <<stage - 1, n - 2>>,
        <<stage, n - 1>>, <<stage, n - 2>>}

GradientInit ==
  /\ config \in GradientConfigs
  /\ pc = "gradient"
  /\ error = "None"
  /\ filter_bank = new_filter_bank(config.num_subfilters, config.pole_radius)
  /\ signal_generator = None
  /\ signal = None
  /\ theta_range = None
  /\ mse_values = None
  /\ mse_first_values = None
  /\ running_average = 0
  /\ k = 1
  /\ in_capture_range = None
  /\ initial_theta = 0
  /\ warnings_emitted = << >>
  /\ search_result = None
  /\ theta_current \in TestThetas
  /\ theta_history = None
  /\ iteration = 0
  /\ y = process(filter_bank,
                 fn_input_signal(config, Zeros(config.num_samples + 1)),
                 theta_current)
  /\ beta = [stage \in 0 .. config.num_subfilters - 1 |-> Zeros(config.num_samples)]
  /\ lms_result = None
  /\ result = None
  /\ calls = << >>

\* Lines 289-309: one pass of the sample loop
GradientSample ==
  /\ pc = "gradient"
  /\ k < config.num_subfilters
  /\ iteration < config.num_samples
  /\ LET stage == k
         harmonic_idx == stage
         n == sample_order(config.num_samples)[iteration]
         value == gradient_sample(beta[stage - 1], beta[stage], y, stage,
                                  harmonic_idx, Cos(harmonic_idx * theta_current),
                                  Sin(harmonic_idx * theta_current),
                                  config.pole_radius, n)
     IN /\ beta' = [beta EXCEPT ![stage][n] = value]
        /\ calls' = Append(calls, [ stage |-> stage, n |-> n,
                                    reads |-> gradient_reads(stage, n),
                                    value |-> value ])
  /\ iteration' = iteration + 1
  /\ UNCHANGED << config, pc, error, filter_bank, signal_generator, signal,
                  theta_range, mse_values, mse_first_values, running_average,
                  k, in_capture_range, initial_theta, warnings_emitted,
                  search_result, theta_current, theta_history, y, lms_result,
                  result >>

\* Line 283: the sample loop is over, the stage loop goes on
GradientNextStage ==
  /\ pc = "gradient"
  /\ k < config.num_subfilters
  /\ iteration = config.num_samples
  /\ k' = k + 1
  /\ iteration' = 0
  /\ UNCHANGED << config, pc, error, filter_bank, signal_generator, signal,
                  theta_range, mse_values, mse_first_values, running_average,
                  in_capture_range, initial_theta, warnings_emitted,
                  search_result, theta_current, theta_history, y, beta,
                  lms_result, result, calls >>

\* Line 311: return beta_matrix[num_subfilters - 1, :]
GradientReturn ==
  /\ pc = "gradient"
  /\ k >= config.num_subfilters
  /\ pc' = "gradient_done"
  /\ result' = beta[config.num_subfilters - 1]
  /\ UNCHANGED << config, error, filter_bank, signal_generator, signal,
                  search_vars, lms_vars, calls >>

GradientNext ==
  \/ GradientSample
  \/ GradientNextStage
  \/ GradientReturn

GradientSpec == GradientInit /\ [][GradientNext]_vars

(***************************************************************************)
(* The grid-point evaluations of find_initial_theta (estimator.py lines    *)
(* 189-191) run as concurrent callers of compute_mse on one                *)
(* CascadedFilterBank, one for each grid point, their steps interleaved in *)
(* any order.  `calls` holds, for each evaluation, where it stands, its    *)
(* local `outputs`, what it returned, and the attributes of the bank it    *)
(* has read and written.                                                   *)
(***************************************************************************)
\* The Configs of the scan: any cascade length and grid size
ScanConfigs ==
  { [ DefaultConfig EXCEPT !.num_samples = MaxSamples, !.num_subfilters = m,
                           !.num_theta_points = p ] :
      m \in 1 .. MaxSubfilters, p \in 1 .. MaxThetaPoints }

\* Faulty variant of mse_source: the matrix is read back from the bank
mse_source_stored(outputs, bank) == bank.last_outputs

\* The matrix compute_mse takes its rows from: its local `outputs`
mse_source(outputs, bank) == outputs

ScanInit ==
  /\ config \in ScanConfigs
  /\ pc = "scan"
  /\ error = "None"
  /\ filter_bank = new_filter_bank(config.num_subfilters, config.pole_radius)
  /\ signal_generator = None
  /\ signal \in TestSignals
  /\ theta_range = linspace(search_stop(config.num_subfilters), config.num_theta_points)
  /\ mse_values = None
  /\ mse_first_values = None
  /\ running_average = 0
  /\ k = 0
  /\ in_capture_range = None
  /\ initial_theta = 0
  /\ warnings_emitted = << >>
  /\ search_result = None
  /\ theta_current = 0
  /\ theta_history = None
  /\ iteration = 0
  /\ y = None
  /\ beta = None
  /\ lms_result = None
  /\ result = None
  /\ calls = [ i \in 1 .. config.num_theta_points |->
                 [ k |-> i - 1, at |-> "called", outputs |-> None,
                   returned |-> None, reads |-> {}, writes |-> {} ] ]

\* filter_bank.py lines 66-71: process fills its local outputs matrix
ScanProcess ==
  /\ pc = "scan"
  /\ \E i \in 1 .. Len(calls) :
       /\ calls[i].at = "called"
       /\ calls' = [calls EXCEPT ![i] =
            [@ EXCEPT !.at = "processed",
                      !.outputs = process(filter_bank, signal, theta_range[calls[i].k]),
                      !.reads = @ \cup {"num_stages", "filters"}]]
  /\ UNCHANGED << config, pc, error, filter_bank, signal_generator, signal,
                  search_vars, lms_vars, result >>

\* filter_bank.py line 73: self._last_outputs = outputs
ScanStore ==
  /\ pc = "scan"
  /\ \E i \in 1 .. Len(calls) :
       /\ calls[i].at = "processed"
       /\ filter_bank' = [filter_bank EXCEPT !.last_outputs = calls[i].outputs]
       /\ calls' = [calls EXCEPT ![i] =
            [@ EXCEPT !.at = "stored", !.writes = @ \cup {"_last_outputs"}]]
  /\ UNCHANGED << config, pc, error, signal_generator, signal, search_vars,
                  lms_vars, result >>

\* filter_bank.py lines 108-113: compute_mse returns the two means
ScanReturn ==
  /\ pc = "scan"
  /\ \E i \in 1 .. Len(calls) :
       /\ calls[i].at = "stored"
       /\ calls' = [calls EXCEPT ![i] =
            [@ EXCEPT !.at = "returned",
                      !.returned = compute_mse(mse_source(calls[i].outputs, filter_bank))]]
  /\ UNCHANGED << config, pc, error, filter_bank, signal_generator, signal,
                  search_vars, lms_vars, result >>

ScanNext ==
  \/ ScanProcess
  \/ ScanStore
  \/ ScanReturn

ScanSpec == ScanInit /\ [][ScanNext]_vars

(***************************************************************************)
(* A caller that keeps the Config it handed to the estimator and assigns   *)
(* to one of its fields between two calls.  Config and its parts are plain *)
(* dataclasses (config.py lines 11-67) and FrequencyEstimator.__init__     *)
(* stores the object itself (estimator.py line 134), so the assignment is  *)
(* seen through self.config.  `calls` keeps the assignment made.           *)
(***************************************************************************)
\* The assignments the caller may make: cfg.filter.pole_radius = 0.5,
\* cfg.filter.num_subfilters one less, cfg.signal.add_noise flipped
Assignments(cfg) ==
  { [field |-> "pole_radius", config |-> [cfg EXCEPT !.pole_radius = SC \div 2]],
    [field |-> "add_noise", config |-> [cfg EXCEPT !.add_noise = ~cfg.add_noise]] }
  \cup (IF cfg.num_subfilters >= 2
        THEN {[field |-> "num_subfilters",
               config |-> [cfg EXCEPT !.num_subfilters = cfg.num_subfilters - 1]]}
        ELSE {})

\* cfg.<part>.<field> = value, after construction or between
\* find_initial_theta and run_lms
AssignConfig ==
  /\ pc \in {"ready", "searched"}
  /\ calls = << >>
  /\ \E a \in Assignments(config) :
       /\ a.config # config
       /\ config' = a.config
       /\ calls' = << [op |-> "assign", field |-> a.field, before |-> config] >>
  /\ UNCHANGED << pc, error, filter_bank, signal_generator, signal, search_vars,
                  lms_vars, result >>

MutableNext ==
  \/ Next
  \/ AssignConfig

MutableSpec == Init /\ [][MutableNext]_vars

(***************************************************************************)
(* Properties.                                                             *)
(***************************************************************************)
\* find_initial_theta has returned to estimate
AfterSearch == {"searched", "lms", "tracked", "done"}

\* A fresh bank with the estimator's parameters: no call has touched it
FreshBank == new_filter_bank(config.num_subfilters, config.pole_radius)

\* What one pass of the loop must leave behind, given the filter outputs and
\* the gradient of the theta the pass started with
UpdateByRule(fresh_y, fresh_beta) ==
  /\ y' = fresh_y
  /\ beta' = fresh_beta
  /\ theta_current' =
       IF /\ IsFinite(theta_current)
          /\ IsFinite(config.step_size)
          /\ IsFinite(fresh_y[config.num_subfilters][iteration])
          /\ IsFinite(fresh_beta[iteration])
       THEN theta_current
            - Mul(Mul(2 * config.step_size,
                      fresh_y[config.num_subfilters][iteration]),
                  fresh_beta[iteration])
       ELSE NonFinite
  /\ theta_history' = [theta_history EXCEPT ![iteration] = theta_current']

\* C1: every pass n of the LMS loop (run_lms and run_lms_algorithm) sets
\* theta to theta_prev - 2 mu y_M(n) beta(n), with y and the gradient
\* recomputed for theta_prev over a full N+1 sample signal from zero filter
\* state, both read at index n, and stores the new theta in theta_history[n].
C1_LmsUpdateRule ==
  [][ /\ (pc = "lms" /\ pc' = "lms") =>
           /\ iteration \in 0 .. config.num_samples - 1
           /\ iteration' = iteration + 1
           /\ ArrLen(signal') = config.num_samples + 1
           /\ UpdateByRule(process(FreshBank, signal', theta_current),
                           estimator_compute_gradient(
                             config, theta_current,
                             process(FreshBank, signal', theta_current)))
      /\ (pc = "fn_lms" /\ pc' = "fn_lms") =>
           /\ iteration \in 0 .. config.num_samples - 1
           /\ iteration' = iteration + 1
           /\ ArrLen(signal') = config.num_samples + 1
           /\ UpdateByRule(compute_filter_output(theta_current, config, signal'),
                           compute_gradient(
                             theta_current,
                             compute_filter_output(theta_current, config, signal'),
                             config))
    ]_vars

\* C1 witness: the loop has made two passes and the second one moved theta
C1_Witness ==
  /\ pc = "lms"
  /\ iteration >= 2
  /\ theta_history[iteration - 1] # theta_history[iteration - 2]

\* The completed running average of the grid loop: the sum over the grid of
\* mse_total / num_theta_points
GridAverage ==
  SumTo([i \in 0 .. config.num_theta_points - 1 |->
           Quot(mse_values[i], config.num_theta_points)],
        config.num_theta_points)

\* The minimum of mse_total over the grid
GridMin ==
  CHOOSE v \in {mse_values[i] : i \in 0 .. config.num_theta_points - 1} :
    \A i \in 0 .. config.num_theta_points - 1 : v <= mse_values[i]

\* Grid point i satisfies the three capture-range predicates
Qualifies(i) ==
  /\ mse_first_values[i] - GridAverage < (SC * SC) \div 10000
  /\ mse_values[i] - GridAverage < (SC * SC) \div 10000
  /\ mse_values[i] - GridMin < (2 * SC * SC) \div 10

GridIndices == 0 .. config.num_theta_points - 1

SomeQualifies == \E i \in GridIndices : Qualifies(i)

\* C2: when some grid point satisfies the three predicates, the search
\* returns the qualifying grid point of smallest index.
C2_FirstQualifyingPoint ==
  (pc \in AfterSearch /\ SomeQualifies) =>
    \E i \in GridIndices :
      /\ Qualifies(i)
      /\ \A j \in 0 .. i - 1 : ~Qualifies(j)
      /\ search_result.initial_theta = theta_range[i]

\* C2 witness: two grid points qualify and the first of them is not point 0
C2_Witness ==
  /\ pc = "searched"
  /\ ~Qualifies(0)
  /\ \E i, j \in GridIndices : i < j /\ Qualifies(i) /\ Qualifies(j)
  /\ search_result.initial_theta # 0

\* C3: when no grid point satisfies the three predicates the search does not
\* fail and returns the grid point of the first global minimum of mse_total.
C3_FallbackToArgmin ==
  (pc \in AfterSearch /\ ~SomeQualifies) =>
    /\ error = "None"
    /\ \E i \in GridIndices :
         /\ mse_values[i] = GridMin
         /\ \A j \in 0 .. i - 1 : mse_values[j] # GridMin
         /\ search_result.initial_theta = theta_range[i]

\* C3 witness: the fallback was taken on a grid whose minimum is not point 0
C3_Witness ==
  /\ pc = "searched"
  /\ ~SomeQualifies
  /\ mse_values[0] # GridMin

\* The record r carries a fallback flag and the flag is raised
FlagRaised(r) == "used_fallback" \in DOMAIN r /\ r.used_fallback

\* C4: what the search returns, and the EstimationResult built from it,
\* carry a flag that is raised exactly when no grid point satisfied the
\* three predicates and the global-argmin fallback was used; a warning
\* emission does not count.
C4_FallbackFlagInResult ==
  /\ pc \in AfterSearch => (FlagRaised(search_result) <=> ~SomeQualifies)
  /\ pc = "done" => (FlagRaised(result) <=> ~SomeQualifies)

\* C5: grid point i is treated as inside the capture range exactly when
\* mse_first[i] - avg < 1e-4, mse_total[i] - avg < 1e-4 and
\* mse_total[i] - min < 0.2, with avg the completed running average and min
\* the minimum of mse_total over the grid.
C5_CaptureMembership ==
  pc \in AfterSearch =>
    /\ running_average = GridAverage
    /\ \A i \in GridIndices : in_capture_range[i] <=> Qualifies(i)

\* C5 witness: a grid on which each of the three predicates fails somewhere
\* and some point passes all three
C5_Witness ==
  /\ pc = "searched"
  /\ SomeQualifies
  /\ \E i \in GridIndices : ~(mse_first_values[i] - GridAverage < (SC * SC) \div 10000)
  /\ \E i \in GridIndices : ~(mse_values[i] - GridAverage < (SC * SC) \div 10000)
  /\ \E i \in GridIndices : ~(mse_values[i] - GridMin < (2 * SC * SC) \div 10)

RECURSIVE StageSensitivity(_, _, _)
\* The sensitivity of cascade stage m to theta: row 0 of the filter outputs
\* is the input signal, whose sensitivity is zero, and for m >= 1 beta_m
\* comes from beta_(m-1) by the recursion step with harmonic index m and
\* filter-output rows m-1 and m
StageSensitivity(m, theta, yy) ==
  IF m = 0 THEN Zeros(config.num_samples)
  ELSE gradient_row_upto(StageSensitivity(m - 1, theta, yy), yy, m, m,
                         Cos(m * theta), Sin(m * theta),
                         config.pole_radius, config.num_samples)

\* C6: the gradient row multiplied into the LMS update is beta_M, produced
\* by the recursion step with harmonic index M and filter-output rows M-1
\* and M.
C6_GradientIsFinalStage ==
  [][ (pc = "lms" /\ pc' = "lms" /\ IsFinite(theta_current)) =>
        beta' = StageSensitivity(config.num_subfilters, theta_current, y') ]_vars

\* C7 as claimed: the initial theta and every theta written to
\* theta_history lie strictly between 0 and pi/M.
C7_ThetaInOpenInterval ==
  /\ pc \in AfterSearch =>
       /\ 0 < search_result.initial_theta
       /\ search_result.initial_theta < PI \div config.num_subfilters
  /\ pc \in {"lms", "tracked", "done"} =>
       \A n \in 0 .. iteration - 1 :
         /\ 0 < theta_history[n]
         /\ theta_history[n] < PI \div config.num_subfilters

\* C7 as amended: the initial theta returned by the grid search is a grid
\* point of the closed interval [0, pi/M].
C7_InitialThetaInClosedInterval ==
  pc \in AfterSearch =>
    /\ 0 <= search_result.initial_theta
    /\ search_result.initial_theta <= PI \div config.num_subfilters
    /\ \E i \in GridIndices : search_result.initial_theta = theta_range[i]

\* C7 witness: the search returned the upper end pi/M of the interval with
\* more than one subfilter
C7_Witness ==
  /\ pc = "searched"
  /\ config.num_subfilters >= 2
  /\ search_result.initial_theta = PI \div config.num_subfilters

\* C8: the LMS loop starts at n = 0 from the initial theta, makes exactly N
\* passes and returns; theta_history then has N entries and the returned
\* theta is the last of them.
C8_LoopMakesNPasses ==
  /\ pc \in {"lms", "fn_lms"} =>
       /\ iteration \in 0 .. config.num_samples
       /\ ArrLen(theta_history) = config.num_samples
       /\ iteration = 0 =>
            theta_current = (IF pc = "lms" THEN search_result.initial_theta
                             ELSE initial_theta)
  /\ pc \in {"tracked", "done", "fn_tracked"} =>
       /\ iteration = config.num_samples
       /\ ArrLen(lms_result.theta_history) = config.num_samples
       /\ lms_result.theta_final = lms_result.theta_history[config.num_samples - 1]

\* C8 witness: run_lms returned after at least two passes that moved theta
C8_Witness ==
  /\ pc = "tracked"
  /\ config.num_samples >= 2
  /\ lms_result.theta_final # search_result.initial_theta

\* The validity invariants of Config
ConfigValid(c) ==
  /\ c.fundamental_freq > 0
  /\ c.sampling_freq > 0
  /\ 2 * c.fundamental_freq < c.sampling_freq
  /\ c.num_subfilters >= 1
  /\ c.pole_radius > 0
  /\ c.pole_radius < SC
  /\ c.step_size > 0
  /\ c.num_theta_points >= 1

\* The estimator has not gone past construction
NotStarted == pc \in {"new", "ready"}

\* The run ended in an exception with nothing computed
RejectedUntouched ==
  /\ pc = "error"
  /\ error # "None"
  /\ signal = None
  /\ mse_values = None
  /\ y = None
  /\ beta = None

\* The caller went through FrequencyEstimator, not the functional pipeline
ViaEstimator == pc \notin {"fn_lms", "fn_tracked", "fn_error"}

\* C10: with a Config that breaks a validity invariant the estimator raises
\* before any signal is generated and before any filter, MSE or gradient is
\* computed.
C10_InvalidConfigRejected ==
  (~ConfigValid(config) /\ ViaEstimator) => (NotStarted \/ RejectedUntouched)

\* Every entry of the array is finite
AllFinite(arr) == \A i \in DOMAIN arr : IsFinite(arr[i])

\* C11: a run of the LMS loop in which theta, y_M(n) or the gradient stops
\* being finite ends in a reported error: neither run_lms nor
\* run_lms_algorithm returns, and no EstimationResult carries, a final theta
\* or a theta_history entry that is not finite.
C11_NonFiniteNeverReturned ==
  /\ pc \in {"tracked", "done", "fn_tracked"} =>
       /\ IsFinite(lms_result.theta_final)
       /\ AllFinite(lms_result.theta_history)
  /\ pc = "done" =>
       /\ IsFinite(result.final_theta)
       /\ AllFinite(result.theta_history)

\* The positions in the log of the calls of one operation
CallsOf(op) == {i \in 1 .. Len(calls) : calls[i].op = op}

\* Two calls were made with identical arguments
SameArguments(i, j) ==
  /\ calls[i].signal = calls[j].signal
  /\ calls[i].theta = calls[j].theta

\* C12: two process calls on the same bank with identical arguments return
\* identical matrices, whatever other process or compute_mse calls were
\* made before or between them.
C12_ProcessIdempotent ==
  \A i, j \in CallsOf("process") :
    SameArguments(i, j) => calls[i].returned = calls[j].returned

\* C12 witness: process was called twice with the same non-zero signal and
\* theta, with a call on another signal and theta in between
C12_Witness ==
  /\ Len(calls) = 3
  /\ calls[1].op = "process"
  /\ calls[3].op = "process"
  /\ SameArguments(1, 3)
  /\ calls[1].signal # Zeros(MaxSamples + 1)
  /\ calls[2].signal # calls[1].signal
  /\ calls[2].theta # calls[1].theta

\* The calls made on the bank itself
BankCalls == CallsOf("process") \cup CallsOf("compute_mse")

\* C13 as claimed: a process or compute_mse call leaves every attribute of
\* the bank as it was, what last_outputs and final_output return included.
C13_CallLeavesBankUnchanged ==
  \A i \in BankCalls : calls[i].bank_after = calls[i].bank_before

\* C13 as amended: a process or compute_mse call leaves num_stages,
\* pole_radius and the filters as they were and replaces the stored matrix
\* by the matrix of this call, which process returns.
C13_CallReplacesLastOutputs ==
  \A i \in BankCalls :
    /\ calls[i].bank_after =
         [calls[i].bank_before EXCEPT
            !.last_outputs = process(FreshBank, calls[i].signal, calls[i].theta)]
    /\ calls[i].op = "process" =>
         calls[i].bank_after.last_outputs = calls[i].returned

\* C13 witness: a call replaced the matrix an earlier call had stored by a
\* different one
C13_Witness ==
  \E i \in BankCalls :
    /\ calls[i].bank_before.last_outputs # None
    /\ calls[i].bank_after.last_outputs # calls[i].bank_before.last_outputs
    /\ filter_bank = calls[Len(calls)].bank_after

\* The notch stage with harmonic index m and pole radius r applied to the
\* row x: b = (1, -2 cos(m theta), 1), a = (1, -2 r cos(m theta), r^2)
StageOutput(m, r, theta, x) ==
  lfilter(<<SC, -(2 * Cos(m * theta)), SC>>,
          <<SC, -Mul(2 * r, Cos(m * theta)), Mul(r, r)>>, x)

\* C14: process on a bank of M stages returns M + 1 rows; row 0 is the
\* input signal and row m, for m in 1..M, is the notch stage of harmonic
\* index m applied to row m - 1.
C14_RowsAreCascade ==
  \A i \in CallsOf("process") :
    LET out == calls[i].returned
    IN /\ DOMAIN out = 0 .. config.num_subfilters
       /\ out[0] = calls[i].signal
       /\ \A m \in 1 .. config.num_subfilters :
            out[m] = StageOutput(m, config.pole_radius, calls[i].theta, out[m - 1])

\* C14 witness: a process call on a bank of at least two stages whose rows
\* 0, 1 and 2 are three different rows
C14_Witness ==
  \E i \in CallsOf("process") :
    /\ config.num_subfilters >= 2
    /\ calls[i].returned[1] # calls[i].returned[0]
    /\ calls[i].returned[2] # calls[i].returned[1]
    /\ calls[i].returned[2] # calls[i].returned[0]

\* C15: any stage (any harmonic index, pole radius and theta) turns an
\* all-zero input into an all-zero output of the same length, and so every
\* row of process(zero signal, theta) is all zero.
C15_ZeroInZeroOut ==
  \A i \in 1 .. Len(calls) :
    /\ \A m \in DOMAIN filter_bank.filters :
         notch_filter(filter_bank.filters[m], Zeros(MaxSamples + 1), calls[i].theta)
           = Zeros(MaxSamples + 1)
    /\ (calls[i].op = "process" /\ calls[i].signal = Zeros(MaxSamples + 1)) =>
         \A m \in DOMAIN calls[i].returned :
           calls[i].returned[m] = Zeros(MaxSamples + 1)

\* C15 witness: process was called on the zero signal after a call on a
\* non-zero signal, on a bank of at least two stages
C15_Witness ==
  /\ Len(calls) >= 2
  /\ config.num_subfilters >= 2
  /\ calls[1].signal # Zeros(MaxSamples + 1)
  /\ calls[2].op = "process"
  /\ calls[2].signal = Zeros(MaxSamples + 1)

\* C16: in the gradient routines the entry 0 of every row after the first is
\* the entry 0 of the row before it.  The spec's beta_m is row m - 1 of
\* beta_matrix, so m >= 2 names the rows 1 .. M - 1 the stage loop writes.
C16_GradientBoundaryCopy ==
  [][ /\ (pc = "lms" /\ pc' = "lms") =>
           \A stage \in 1 .. config.num_subfilters - 1 :
             beta_matrix_row(stage, theta_current, y', config.pole_radius,
                             config.num_samples)[0]
               = beta_matrix_row(stage - 1, theta_current, y', config.pole_radius,
                                 config.num_samples)[0]
      /\ (pc = "fn_lms" /\ pc' = "fn_lms") =>
           \A stage \in 1 .. config.num_subfilters - 1 :
             fn_beta_matrix_row(stage, theta_current, y', config.pole_radius,
                                config.num_samples)[0]
               = fn_beta_matrix_row(stage - 1, theta_current, y', config.pole_radius,
                                    config.num_samples)[0]
    ]_vars

\* C16 witness: a pass of run_lms on a cascade of three stages, so that two
\* rows were written, has produced a gradient that is not all zero
C16_Witness ==
  /\ pc = "lms"
  /\ config.num_subfilters >= 3
  /\ iteration >= 1
  /\ \E n \in DOMAIN beta : beta[n] # 0

\* The sum of the squared samples of a row divided by the number of its
\* samples
MeanOfSquares(row) ==
  SumTo([n \in DOMAIN row |-> row[n] * row[n]], ArrLen(row)) \div ArrLen(row)

\* C17: compute_mse(signal, theta) returns as mse_total the mean of the
\* squared samples of row M of process(signal, theta) and as mse_first the
\* same mean over row 1, both non-negative; core.mse.compute_mse returns the
\* same two means of the rows of compute_filter_output.
C17_MseIsMeanOfSquares ==
  /\ \A i \in CallsOf("compute_mse") :
       LET out == process(FreshBank, calls[i].signal, calls[i].theta)
       IN /\ calls[i].returned.mse_total = MeanOfSquares(out[config.num_subfilters])
          /\ calls[i].returned.mse_first = MeanOfSquares(out[1])
          /\ calls[i].returned.mse_total >= 0
          /\ calls[i].returned.mse_first >= 0
  /\ \A i \in CallsOf("fn_compute_mse") :
       LET out == compute_filter_output(calls[i].theta, config, calls[i].signal)
       IN /\ calls[i].returned.mse_total = MeanOfSquares(out[config.num_subfilters])
          /\ calls[i].returned.mse_first = MeanOfSquares(out[1])
          /\ calls[i].returned.mse_total >= 0
          /\ calls[i].returned.mse_first >= 0

\* C17 witness: both compute_mse routines were called, the bank's one on a
\* cascade of at least two stages with two different positive results
C17_Witness ==
  /\ config.num_subfilters >= 2
  /\ CallsOf("fn_compute_mse") # {}
  /\ \E i \in CallsOf("compute_mse") :
       /\ calls[i].returned.mse_total > 0
       /\ calls[i].returned.mse_first > 0
       /\ calls[i].returned.mse_first # calls[i].returned.mse_total

\* The calls of the log that returned normalised frequency responses
NormalisedResponses ==
  { i \in 1 .. Len(calls) :
      /\ calls[i].op \in {"frequency_response", "compute_frequency_response"}
      /\ calls[i].normalize }

\* The response of the notch stage of harmonic m
NotchResponse(m, omega, theta) ==
  freqz(<<SC, -(2 * Cos(m * theta)), SC>>,
        <<SC, -Mul(2 * config.pole_radius, Cos(m * theta)),
          Mul(config.pole_radius, config.pole_radius)>>, omega)

\* H scaled to magnitude 1 at the index ref, in the arithmetic of the routine
\* op: a division by the magnitude, or a product with its reciprocal
ScaledToUnity(op, H, ref) ==
  IF op = "frequency_response"
  THEN [j \in DOMAIN H |-> CDivReal(H[j], CAbs(H[ref]))]
  ELSE [j \in DOMAIN H |-> CMulReal(H[j], Quot(SC * SC, CAbs(H[ref])))]

RECURSIVE ProductOfStages(_, _, _, _, _)
\* The product of the scaled responses of the stages 1 .. m
ProductOfStages(op, m, omega, theta, ref) ==
  IF m = 0 THEN [j \in DOMAIN omega |-> Cx(SC, 0)]
  ELSE LET before == ProductOfStages(op, m - 1, omega, theta, ref)
           H == ScaledToUnity(op, NotchResponse(m, omega, theta), ref)
       IN [j \in DOMAIN omega |-> CMul(before[j], H[j])]

\* C18: every frequency-response routine returns, as H_total, the product of
\* exactly M stage responses, those of the harmonics 1 .. M, each scaled to
\* magnitude 1 at the reference index and the product scaled again, and
\* H_stages holds the scaled response of stage m for every m in 1 .. M
C18_TotalIsProductOfMStages ==
  \A i \in NormalisedResponses :
    LET c == calls[i]
        M == config.num_subfilters
        ref == config.num_theta_points
    IN /\ \A m \in 1 .. M :
            c.returned.H_stages[m - 1] =
              ScaledToUnity(c.op, NotchResponse(m, c.omega, c.theta), ref)
       /\ c.returned.H_total =
            ScaledToUnity(c.op, ProductOfStages(c.op, M, c.omega, c.theta, ref), ref)

\* The squared modulus of the larger root of z^2 + a[2] z + a[3], the
\* denominator in powers of z.  With a[2]^2 <= 4 a[3] the roots are a
\* conjugate pair (or double) of squared modulus a[3]; a[3] carries the
\* truncation of Mul, so the comparison allows one unit in its last place
PoleModulusSquared(a) ==
  IF a[2] * a[2] <= 4 * (a[3] + 1) * SC
  THEN a[3]
  ELSE LET root == IsqrtBetween(a[2] * a[2] - 4 * a[3] * SC, 0, 4 * SC)
           larger == ((IF a[2] < 0 THEN -a[2] ELSE a[2]) + root) \div 2
       IN Mul(larger, larger)

\* The coefficients the bank's stage i computes in the call j of the log
CoefficientsIn(j, i) == get_coefficients(calls[j].bank_before.filters[i], calls[j].theta)

\* C19: for every pole radius r in (0, 1), harmonic m and theta, the
\* denominator of get_coefficients is (1, -2 r cos(m theta), r^2): a2 = r^2,
\* a1^2 <= 4 a2, and the poles have modulus r (squared modulus r^2), inside
\* the unit circle
C19_PolesAtRadius ==
  \A j \in BankCalls :
    \A i \in DOMAIN calls[j].bank_before.filters :
      LET a == CoefficientsIn(j, i).a
          r == calls[j].bank_before.pole_radius
          m == i + 1
      IN /\ r > 0 /\ r < SC
         /\ a[1] = SC
         /\ a[2] = -Mul(2 * r, Cos(m * calls[j].theta))
         /\ a[3] = Mul(r, r)
         /\ a[2] * a[2] <= 4 * r * r
         /\ PoleModulusSquared(a) = Mul(r, r)
         /\ PoleModulusSquared(a) < SC

\* A call on a bank of two stages or more with r = 0.95 whose second stage
\* has a nonzero a[1]
C19_Witness ==
  \E j \in BankCalls :
    /\ calls[j].bank_before.num_stages >= 2
    /\ calls[j].bank_before.pole_radius = (95 * SC) \div 100
    /\ CoefficientsIn(j, 1).a[2] # 0
    /\ CoefficientsIn(j, 1).a[3] = Mul((95 * SC) \div 100, (95 * SC) \div 100)

\* The input signal both pipelines build when noise is disabled
NoiseFreeInput == fn_input_signal(config, Zeros(config.num_samples + 1))

RECURSIVE FunctionalTheta(_, _)
\* theta_current of run_lms_algorithm(theta0, config) after n passes of its
\* loop, noise disabled
FunctionalTheta(theta0, n) ==
  IF n = 0 THEN theta0
  ELSE LET before == FunctionalTheta(theta0, n - 1)
           yy == compute_filter_output(before, config, NoiseFreeInput)
           gradient == compute_gradient(before, yy, config)
       IN fn_lms_update(before, config.step_size,
                        yy[config.num_subfilters][n - 1], gradient[n - 1])

\* The theta the pass number n (from 1) of a run from theta0 filtered with
ThetaOfPass(theta0, n) == IF n = 1 THEN theta0 ELSE theta_history[n - 2]

\* C20: with noise disabled the two pipelines agree.  What process returns
\* on the generated signal, in a pass of run_lms and in estimate's final
\* call, is what compute_filter_output returns for the same theta; and from
\* the same initial theta run_lms and run_lms_algorithm go through the same
\* theta_history and end at the same theta
C20_PipelinesAgree ==
  ~config.add_noise =>
    /\ (pc = "lms" /\ iteration >= 1) =>
         y = compute_filter_output(ThetaOfPass(search_result.initial_theta, iteration),
                                   config, NoiseFreeInput)
    /\ pc = "done" =>
         result.filter_output =
           compute_filter_output(result.final_theta, config, NoiseFreeInput)
    /\ pc = "lms" =>
         /\ theta_current = FunctionalTheta(search_result.initial_theta, iteration)
         /\ \A i \in 0 .. iteration - 1 :
              theta_history[i] = FunctionalTheta(search_result.initial_theta, i + 1)
    /\ pc \in {"tracked", "done"} =>
         /\ lms_result.theta_final =
              FunctionalTheta(search_result.initial_theta, config.num_samples)
         /\ \A i \in 0 .. config.num_samples - 1 :
              lms_result.theta_history[i] =
                FunctionalTheta(search_result.initial_theta, i + 1)
    /\ pc = "fn_lms" =>
         /\ theta_current = FunctionalTheta(initial_theta, iteration)
         /\ \A i \in 0 .. iteration - 1 :
              theta_history[i] = FunctionalTheta(initial_theta, i + 1)
    /\ pc = "fn_tracked" =>
         /\ lms_result.theta_final = FunctionalTheta(initial_theta, config.num_samples)
         /\ \A i \in 0 .. config.num_samples - 1 :
              lms_result.theta_history[i] = FunctionalTheta(initial_theta, i + 1)

\* A finished noise-free estimate of two samples or more in which theta
\* moved during tracking
C20_Witness ==
  /\ pc = "done"
  /\ ~config.add_noise
  /\ config.num_samples >= 2
  /\ IsFinite(result.final_theta)
  /\ result.theta_history[1] # result.theta_history[0]
  /\ result.filter_output[1] # result.filter_output[0]

\* The value the recursion of stage m gives at sample n: harmonic index m,
\* the rows m-1 and m of the filter outputs, `below` the sensitivity of stage
\* m-1 and `row` that of stage m
RecursionOfStage(m, theta, yy, below, row, n) ==
  gradient_sample(below, row, yy, m, m, Cos(m * theta), Sin(m * theta),
                  config.pole_radius, n)

\* The rows of beta_matrix a pass of run_lms computes
BetaRows(theta, yy) ==
  [stage \in 0 .. config.num_subfilters - 1 |->
     beta_matrix_row(stage, theta, yy, config.pole_radius, config.num_samples)]

\* The rows of beta_matrix a pass of run_lms_algorithm computes
FnBetaRows(theta, yy) ==
  [stage \in 0 .. config.num_subfilters - 1 |->
     fn_beta_matrix_row(stage, theta, yy, config.pole_radius, config.num_samples)]

\* Every sample n >= 1 of beta_m, m in 2 .. M, is the value of the recursion
\* of stage m; beta_m is row m - 1 of the 0-based beta_matrix
RowsFollowRecursion(rows, theta, yy) ==
  \A m \in 2 .. config.num_subfilters :
    \A n \in 1 .. config.num_samples - 1 :
      rows[m - 1][n] = RecursionOfStage(m, theta, yy, rows[m - 2], rows[m - 1], n)

\* C21: for every stage m in 2 .. M and sample n >= 2 the gradient routines
\* compute beta_m(n) = beta_(m-1)(n) - 2 cos(m theta) beta_(m-1)(n-1)
\* + 2 m sin(m theta) y_(m-1)(n-1) + beta_(m-1)(n-2)
\* + 2 r cos(m theta) beta_m(n-1) - r^2 beta_m(n-2)
\* - 2 r m sin(m theta) y_m(n-1), and for n = 1 the same without the n-2
\* terms, y being the filter outputs of the same theta
C21_GradientRecursion ==
  [][ /\ (pc = "lms" /\ pc' = "lms" /\ IsFinite(theta_current)) =>
           RowsFollowRecursion(BetaRows(theta_current, y'), theta_current, y')
      /\ (pc = "fn_lms" /\ pc' = "fn_lms" /\ IsFinite(theta_current)) =>
           RowsFollowRecursion(FnBetaRows(theta_current, y'), theta_current, y')
    ]_vars

\* The entry of beta_matrix the assignment number i wrote
CellOf(i) == <<calls[i].stage, calls[i].n>>

\* C22: the gradient routine assigns beta_matrix in strictly increasing
\* stage order and, within a stage, in strictly increasing n; every entry an
\* assignment reads is either in row 0, which the routine never writes, or
\* was assigned before, and no entry that was read is assigned afterwards.
\* The row returned is the one the routine computes as a whole.
C22_ReadsAreFinal ==
  pc \in {"gradient", "gradient_done"} =>
    /\ \A i, j \in 1 .. Len(calls) :
         i < j => \/ calls[i].stage < calls[j].stage
                  \/ calls[i].stage = calls[j].stage /\ calls[i].n < calls[j].n
    /\ \A i \in 1 .. Len(calls) :
         \A cell \in calls[i].reads :
           /\ cell[1] = 0 \/ \E j \in 1 .. i - 1 : CellOf(j) = cell
           /\ \A j \in i .. Len(calls) : CellOf(j) # cell
    /\ pc = "gradient_done" =>
         result = estimator_compute_gradient(config, theta_current, y)

\* The routine has returned from a run of two stage passes over three
\* samples or more, with a gradient that is not all zero
C22_Witness ==
  /\ pc = "gradient_done"
  /\ config.num_subfilters >= 3
  /\ config.num_samples >= 3
  /\ Len(calls) = (config.num_subfilters - 1) * config.num_samples
  /\ \E n \in DOMAIN result : result[n] # 0

\* The stages of an estimate() run in which a signal has been generated
SignalInUse == {"search", "searched", "lms", "tracked", "done"}

\* C23: within one estimation run the input signal is one fixed sequence of
\* samples: once the grid search has its signal, every pass of the LMS loop
\* and the final filter-output computation filter those same samples, also
\* with add_noise = true
C23_OneFixedSignal ==
  [][ (pc \in SignalInUse /\ pc' \in SignalInUse) => signal' = signal ]_vars

\* Every row of the matrix has len samples
RowsOfLength(matrix, len) == \A m \in DOMAIN matrix : ArrLen(matrix[m]) = len

\* C24 as claimed: in a run with num_samples = N every row of the
\* filter-output matrix has exactly N samples, as many as theta_history has
\* entries and the LMS loop has passes
C24_RowsHaveNSamples ==
  /\ (pc \in {"lms", "fn_lms"} /\ iteration >= 1) =>
       /\ RowsOfLength(y, config.num_samples)
       /\ ArrLen(theta_history) = config.num_samples
  /\ pc = "done" => RowsOfLength(result.filter_output, config.num_samples)

\* C24 as amended: every row of the filter-output matrix has N + 1 samples,
\* the gradient and theta_history have N entries and the loop makes N
\* passes, pass i using sample i; sample N is used by no update
C24_RowsHaveOneMoreSample ==
  /\ (pc \in {"lms", "fn_lms"} /\ iteration >= 1) =>
       /\ RowsOfLength(y, config.num_samples + 1)
       /\ ArrLen(beta) = config.num_samples
       /\ ArrLen(theta_history) = config.num_samples
       /\ iteration <= config.num_samples
  /\ pc \in {"tracked", "done", "fn_tracked"} =>
       /\ iteration = config.num_samples
       /\ ArrLen(lms_result.theta_history) = config.num_samples
  /\ pc = "done" =>
       /\ RowsOfLength(result.filter_output, config.num_samples + 1)
       /\ ArrLen(result.theta_history) = config.num_samples

\* A finished estimate of two samples or more on a cascade of two stages or
\* more
C24_Witness ==
  /\ pc = "done"
  /\ config.num_samples >= 2
  /\ config.num_subfilters >= 2
  /\ ArrLen(result.filter_output[config.num_subfilters]) = config.num_samples + 1
  /\ ArrLen(result.theta_history) = config.num_samples

\* What the sequential scan of find_initial_theta gets for grid point g
SequentialMse(g) == compute_mse(process(filter_bank, signal, theta_range[g]))

\* Every evaluation that has returned returned what the sequential scan gets
SameAsSequential ==
  \A i \in 1 .. Len(calls) :
    calls[i].at = "returned" => calls[i].returned = SequentialMse(calls[i].k)

\* C25 as claimed: the grid-point evaluations, in any order or interleaved
\* on one bank, return what the sequential scan returns, and no evaluation
\* reads or writes an attribute that another evaluation writes
C25_NoSharedState ==
  pc = "scan" =>
    /\ SameAsSequential
    /\ \A i, j \in 1 .. Len(calls) :
         i # j => calls[i].writes \cap (calls[j].reads \cup calls[j].writes) = {}

\* C25 as amended: the evaluations return what the sequential scan returns
\* in every interleaving; the one attribute they write is _last_outputs,
\* which every evaluation writes and none reads, and which holds the matrix
\* of the evaluation that stored last
C25_SharedWriteOnly ==
  pc = "scan" =>
    /\ SameAsSequential
    /\ \A i \in 1 .. Len(calls) :
         /\ calls[i].writes \subseteq {"_last_outputs"}
         /\ "_last_outputs" \notin calls[i].reads
         /\ calls[i].at \in {"stored", "returned"} => calls[i].writes = {"_last_outputs"}
    /\ \/ filter_bank.last_outputs = None
       \/ \E i \in 1 .. Len(calls) :
            /\ calls[i].at \in {"stored", "returned"}
            /\ filter_bank.last_outputs = calls[i].outputs

\* An evaluation has returned after another evaluation, of another theta,
\* stored its matrix over the first one's
C25_Witness ==
  /\ pc = "scan"
  /\ \E i, j \in 1 .. Len(calls) :
       /\ i # j
       /\ calls[i].at = "returned"
       /\ calls[j].at \in {"stored", "returned"}
       /\ filter_bank.last_outputs = calls[j].outputs
       /\ calls[j].outputs # calls[i].outputs
       /\ calls[j].outputs[config.num_subfilters] # calls[i].outputs[config.num_subfilters]

HistoryStays(history, n, theta) == \A i \in 0 .. n - 1 : history[i] = theta

FallbackTaken == \A i \in GridIndices : ~in_capture_range[i]

\* C28: in find_initial_theta a grid point with the globally minimal
\* mse_total always satisfies the second and the third capture predicate
\* (its mse_total is below avg + 1e-4 and at distance 0 < 0.2 from the
\* minimum); so the fallback branch is taken only if its mse_first is at
\* least avg + 1e-4, and the theta the fallback returns is such a point: it
\* failed the mse_first predicate only
C28_MinimumFailsOnlyFirstStage ==
  pc \in AfterSearch =>
    \A i \in GridIndices :
      mse_values[i] = GridMin =>
        /\ mse_values[i] - running_average < tolerance_avg
        /\ mse_values[i] - GridMin = 0
        /\ 0 < tolerance_min
        /\ FallbackTaken =>
             /\ mse_first_values[i] - running_average >= tolerance_avg
             /\ \E j \in GridIndices :
                  /\ mse_values[j] = GridMin
                  /\ search_result.initial_theta = theta_range[j]

\* The fallback was taken on a grid of two points or more whose minimum is
\* not at point 0, and that minimum is below the average
C28_Witness ==
  /\ pc = "searched"
  /\ config.num_theta_points >= 2
  /\ FallbackTaken
  /\ mse_values[0] > GridMin
  /\ GridMin < running_average
  /\ search_result.initial_theta > 0

\* The estimator's components agree with its Config
ComponentsAgree ==
  /\ filter_bank.num_stages = config.num_subfilters
  /\ filter_bank.pole_radius = config.pole_radius
  /\ signal_generator.fundamental_freq = config.fundamental_freq
  /\ signal_generator.sampling_freq = config.sampling_freq
  /\ signal_generator.add_noise = config.add_noise
  /\ signal_generator.snr_db = config.snr_db

\* C29: after any sequence of operations on a FrequencyEstimator,
\* assignments to fields of its Config after construction included, a
\* running find_initial_theta, run_lms or estimate uses a filter bank and a
\* signal generator that agree with the current Config
C29_ComponentsFollowConfig ==
  pc \in {"search", "lms"} => ComponentsAgree

\* The most recent of the calls made on the bank itself
LastBankCall == CHOOSE i \in BankCalls : \A j \in BankCalls : j <= i

\* C30: before any process or compute_mse call last_outputs and
\* final_output are None; after any sequence of such calls last_outputs is
\* the matrix of the most recent call and final_output is its last row.
C30_LastOutputsOfLatestCall ==
  IF BankCalls = {}
  THEN /\ bank_last_outputs(filter_bank) = None
       /\ bank_final_output(filter_bank) = None
  ELSE LET outputs == process(FreshBank, calls[LastBankCall].signal,
                              calls[LastBankCall].theta)
       IN /\ bank_last_outputs(filter_bank) = outputs
          /\ bank_final_output(filter_bank) = outputs[config.num_subfilters]
          /\ calls[LastBankCall].op = "process" =>
               bank_last_outputs(filter_bank) = calls[LastBankCall].returned

\* C30 witness: a process call, then a compute_mse call with other
\* arguments whose matrix differs and whose last row is not its first, then
\* a call that does not go through the bank
C30_Witness ==
  /\ Len(calls) = 3
  /\ calls[1].op = "process"
  /\ calls[2].op = "compute_mse"
  /\ calls[3].op \notin {"process", "compute_mse"}
  /\ ~SameArguments(1, 2)
  /\ bank_last_outputs(filter_bank) # calls[1].returned
  /\ bank_final_output(filter_bank) # bank_last_outputs(filter_bank)[0]
  /\ bank_final_output(filter_bank) # calls[1].returned[config.num_subfilters]

====
